---- MODULE Spec2Model ----
(***************************************************************************)
(* Model of the OpenAPI 3 specification generator of fizz                  *)
(* (src/openapi/gen.go): the components registry, the path map, the        *)
(* accumulated generation errors, and the operations that change them      *)
(* (AddOperation, schema building, AddTag).                                *)
(*                                                                         *)
(* Go's reflect.Type values are modelled as records: a primitive is        *)
(* [kind |-> "int"], a pointer [kind |-> "ptr", elem |-> t], a struct      *)
(* [kind |-> "struct", id |-> "X"] whose fields and printed name are       *)
(* looked up in StructFields and TypeString.  A call that panics or        *)
(* overflows the stack ends the program: status records it.                *)
(***************************************************************************)
EXTENDS Integers, Sequences, FiniteSets, TLC

VARIABLES
    paths,        \* g.api.Paths: rewritten path -> method -> operation
    schemaTypes,  \* g.schemaTypes: the struct types already registered
    components,   \* g.api.Components.Schemas: name -> SchemaOrRef
    errors,       \* g.errors: the accumulated generation errors
    tags,         \* g.api.Tags
    status,       \* "running", or "panic" / "overflow" once a call crashed
    calls,        \* number of calls made so far
    last,         \* the last call: its arguments, its result, the state before
    inflight      \* the requests being served at once, one record per goroutine

vars == <<paths, schemaTypes, components, errors, tags, status, calls, last,
          inflight>>

(***************************************************************************)
(* Bounds                                                                  *)
(***************************************************************************)
MaxCalls == 2

(***************************************************************************)
(* Values                                                                  *)
(***************************************************************************)
Nil == [k |-> "nil"]

EmptyMap == [x \in {} |-> Nil]

Put(m, key, val) == [x \in (DOMAIN m) \cup {key} |-> IF x = key THEN val ELSE m[x]]

Lookup(m, key) == IF key \in DOMAIN m THEN m[key] ELSE Nil

Has(m, key) == key \in DOMAIN m

(***************************************************************************)
(* Type descriptors (reflect.Type)                                         *)
(***************************************************************************)
Prim(kind) == [kind |-> kind]
Ptr(t) == [kind |-> "ptr", elem |-> t]
SliceOf(t) == [kind |-> "slice", elem |-> t]
ArrayOf(n, t) == [kind |-> "array", len |-> n, elem |-> t]
MapOf(kt, t) == [kind |-> "map", key |-> kt, elem |-> t]
Struct(id) == [kind |-> "struct", id |-> id]
\* a defined (named) slice type such as `type L []L`
NamedSlice(id) == [kind |-> "slice", id |-> id]

TInt == Prim("int")
TInt8 == Prim("int8")
TInt64 == Prim("int64")
TUint8 == Prim("uint8")
TFloat32 == Prim("float32")
TString == Prim("string")
TBool == Prim("bool")
TFunc == Prim("func")
TIface == Prim("interface")
TTime == Struct("Time")          \* time.Time
\* time.Duration, an int64 with a name
TDuration == [kind |-> "int64", id |-> "Duration"]
NoType == [kind |-> "nil"]

Kind(t) == t.kind

\* the type a pointer type points to, the type itself otherwise
Deref(t) == IF t.kind = "ptr" THEN t.elem ELSE t

\* struct fields: reflect.StructField
Fld(name, type, tgs) ==
    [name |-> name, type |-> type, anon |-> FALSE, exported |-> TRUE, tags |-> tgs]
Unexp(name, type, tgs) ==
    [name |-> name, type |-> type, anon |-> FALSE, exported |-> FALSE, tags |-> tgs]
Emb(name, type, exp) ==
    [name |-> name, type |-> type, anon |-> TRUE, exported |-> exp, tags |-> EmptyMap]

NoTags == EmptyMap

\* sf.Tag.Lookup(name)
TagLookup(f, name) == name \in DOMAIN f.tags
\* sf.Tag.Get(name): the empty value when the tag is absent
TagGet(f, name) == IF name \in DOMAIN f.tags THEN f.tags[name] ELSE <<>>

\* the value of a tag is kept as its comma-separated parts: `query:"a,b"` is
\* <<"a", "b">>, and the empty value `json:""` is << >>
Tag1(name, val) == [x \in {name} |-> val]
Tag2(n1, v1, n2, v2) == [x \in {n1, n2} |-> IF x = n1 THEN v1 ELSE v2]
Tag3(n1, v1, n2, v2, n3, v3) ==
    [x \in {n1, n2, n3} |-> IF x = n1 THEN v1 ELSE IF x = n2 THEN v2 ELSE v3]

\* strings.Split(v, ","): never empty, the empty string gives one empty part
SplitComma(v) == IF v = <<>> THEN <<"">> ELSE v

(***************************************************************************)
(* The struct types the model's calls draw from.  Each is a Go type that   *)
(* can be declared; the comments give the declaration.                     *)
(***************************************************************************)
StructFields(id) ==
    CASE id = "In1" ->        \* struct { A int `path:"a"` }
           << Fld("A", TInt, Tag1("path", <<"a">>)) >>
      [] id = "Out" ->        \* struct { X string; Y int }
           << Fld("X", TString, NoTags), Fld("Y", TInt, NoTags) >>
      [] id = "Params" ->
           \* struct { H string `header:"X-C"`; Q string `query:"q"`
           \*          Body string `json:"body" validate:"required"`
           \*          P int `path:"p"`; B bool `query:"b" description:"is B"`
           \*          Skip int `binding:"-"`; l int }
           << Fld("H", TString, Tag1("header", <<"X-C">>)),
              Fld("Q", TString, Tag1("query", <<"q">>)),
              Fld("Body", TString, Tag2("json", <<"body">>, "validate", <<"required">>)),
              Fld("P", TInt, Tag1("path", <<"p">>)),
              Fld("B", TBool, Tag2("query", <<"b">>, "description", <<"is B">>)),
              Fld("Skip", TInt, Tag1("binding", <<"-">>)),
              Unexp("l", TInt, NoTags) >>
      [] id = "Embedded" ->   \* struct { Z string `query:"z"`; A string `header:"a"` }
           << Fld("Z", TString, Tag1("query", <<"z">>)),
              Fld("A", TString, Tag1("header", <<"a">>)) >>
      [] id = "Outer" ->
           \* struct { R string `query:"r"`; *Embedded; P int `path:"a"`; N Out }
           << Fld("R", TString, Tag1("query", <<"r">>)),
              Emb("Embedded", Ptr(Struct("Embedded")), TRUE),
              Fld("P", TInt, Tag1("path", <<"a">>)),
              Fld("N", Struct("Out"), NoTags) >>
      [] id = "SelfEmb" ->
           \* struct { *SelfEmb; A string `query:"a"`; B int }
           << Emb("SelfEmb", Ptr(Struct("SelfEmb")), TRUE),
              Fld("A", TString, Tag1("query", <<"a">>)),
              Fld("B", TInt, NoTags) >>
      [] id = "X" ->
           \* struct { *X; A string `validate:"required"`; D []*X; F *X }
           << Emb("X", Ptr(Struct("X")), TRUE),
              Fld("A", TString, Tag1("validate", <<"required">>)),
              Fld("D", SliceOf(Ptr(Struct("X"))), NoTags),
              Fld("F", Ptr(Struct("X")), NoTags) >>
      [] id = "Node" ->       \* struct { Val int; Next *Node }
           << Fld("Val", TInt, NoTags),
              Fld("Next", Ptr(Struct("Node")), NoTags) >>
      [] id = "Tree" ->       \* struct { Kids []*Tree; Out Out; M map[string]Tree }
           << Fld("Kids", SliceOf(Ptr(Struct("Tree"))), NoTags),
              Fld("Out", Struct("Out"), Tag1("description", <<"the out">>)),
              Fld("M", MapOf(TString, Struct("Tree")), NoTags) >>
      [] id = "EmbA" ->       \* struct { EmbB; Foo int `query:"foo"` }
           << Emb("EmbB", Struct("EmbB"), TRUE),
              Fld("Foo", TInt, Tag1("query", <<"foo">>)) >>
      [] id = "EmbB" ->       \* struct { *EmbB; Bar string `query:"bar"` }
           << Emb("EmbB", Ptr(Struct("EmbB")), TRUE),
              Fld("Bar", TString, Tag1("query", <<"bar">>)) >>
      [] id = "CycA" ->       \* struct { Foo int; CycB }
           << Fld("Foo", TInt, NoTags),
              Emb("CycB", Struct("CycB"), TRUE) >>
      [] id = "CycB" ->       \* struct { *CycC }
           << Emb("CycC", Ptr(Struct("CycC")), TRUE) >>
      [] id = "CycC" ->       \* struct { Baz bool; *CycB }
           << Fld("Baz", TBool, NoTags),
              Emb("CycB", Ptr(Struct("CycB")), TRUE) >>
      [] id = "RA" ->         \* struct { Foo int; *RA; *RB }  (README, Known limitations)
           << Fld("Foo", TInt, NoTags),
              Emb("RA", Ptr(Struct("RA")), TRUE),
              Emb("RB", Ptr(Struct("RB")), TRUE) >>
      [] id = "RB" ->         \* struct { Bar string; *RA; *RC }
           << Fld("Bar", TString, NoTags),
              Emb("RA", Ptr(Struct("RA")), TRUE),
              Emb("RC", Ptr(Struct("RC")), TRUE) >>
      [] id = "RC" ->         \* struct { Baz bool `query:"baz"` }
           << Fld("Baz", TBool, Tag1("query", <<"baz">>)) >>
      [] id = "Conf" ->       \* struct { Ok int `query:"ok"`; A string `path:"a" query:"b"` }
           << Fld("Ok", TInt, Tag1("query", <<"ok">>)),
              Fld("A", TString, Tag2("path", <<"a">>, "query", <<"b">>)) >>
      [] id = "ConfOuter" ->  \* struct { Body string; *ConfMid }
           << Fld("Body", TString, NoTags),
              Emb("ConfMid", Ptr(Struct("ConfMid")), TRUE) >>
      [] id = "ConfMid" ->    \* struct { Conf; T string `header:"t"` }
           << Emb("Conf", Struct("Conf"), TRUE),
              Fld("T", TString, Tag1("header", <<"t">>)) >>
      [] id = "ConfHidden" -> \* struct { c int `path:"a" header:"b"`; *conf; Q int `query:"q"` }
           << Unexp("c", TInt, Tag2("path", <<"a">>, "header", <<"b">>)),
              Emb("conf", Ptr(Struct("conf")), FALSE),
              Fld("Q", TInt, Tag1("query", <<"q">>)) >>
      [] id = "conf" ->       \* struct { I string `query:"i" header:"i"` }
           << Fld("I", TString, Tag2("query", <<"i">>, "header", <<"i">>)) >>
      [] id = "Dup" ->
           \* struct { A int `path:"a" description:"first"`
           \*          *DupEmb
           \*          E string `path:"a" description:"second" validate:"required"`
           \*          F *string `json:"f" validate:"required"`
           \*          G int `json:"f"`
           \*          Q string `query:"a"` }
           << Fld("A", TInt, Tag2("path", <<"a">>, "description", <<"first">>)),
              Emb("DupEmb", Ptr(Struct("DupEmb")), TRUE),
              Fld("E", TString, Tag3("path", <<"a">>, "description", <<"second">>,
                                     "validate", <<"required">>)),
              Fld("F", Ptr(TString), Tag2("json", <<"f">>, "validate", <<"required">>)),
              Fld("G", TInt, Tag1("json", <<"f">>)),
              Fld("Q", TString, Tag1("query", <<"a">>)) >>
      [] id = "DupEmb" ->     \* struct { Q bool `query:"a" validate:"required"`; F bool; H string `header:"a"` }
           << Fld("Q", TBool, Tag2("query", <<"a">>, "validate", <<"required">>)),
              Fld("F", TBool, NoTags),
              Fld("H", TString, Tag1("header", <<"a">>)) >>
      [] id = "HasFn" ->      \* struct { Fn func(); S []func(); N int `query:"n"` }
           << Fld("Fn", TFunc, NoTags),
              Fld("S", SliceOf(TFunc), NoTags),
              Fld("N", TInt, Tag1("query", <<"n">>)) >>
      [] id = "Anon" ->       \* struct { A int }  (unnamed)
           << Fld("A", TInt, NoTags) >>
      [] id = "AnonDur" ->    \* struct { D time.Duration }  (unnamed)
           << Fld("D", TDuration, NoTags) >>
      [] id = "Wrap" ->       \* struct { In struct { A int } }
           << Fld("In", Struct("Anon"), NoTags) >>
      [] id = "MapKey" ->     \* struct { A string; M map[int]Out; S map[string]int; Z bool }
           << Fld("A", TString, NoTags),
              Fld("M", MapOf(TInt, Struct("Out")), NoTags),
              Fld("S", MapOf(TString, TInt), NoTags),
              Fld("Z", TBool, NoTags) >>
      [] id = "Enums" ->      \* struct { A string `enum:"a,b,c"`; E []string `enum:"g,h,i"`; F *[]int `enum:"1,2"`; Z bool }
           << Fld("A", TString, Tag1("enum", <<"a", "b", "c">>)),
              Fld("E", SliceOf(TString), Tag1("enum", <<"g", "h", "i">>)),
              Fld("F", Ptr(SliceOf(TInt)), Tag1("enum", <<"1", "2">>)),
              Fld("Z", TBool, NoTags) >>
      [] id = "Depr" ->       \* struct { C bool `deprecated:"true"`; J *uint8 `deprecated:"oui"`; K int `deprecated:"0"`; N int; Q string `query:"q" deprecated:"true"`; P string `query:"p" deprecated:"f"` }
           << Fld("C", TBool, Tag1("deprecated", <<"true">>)),
              Fld("J", Ptr(TUint8), Tag1("deprecated", <<"oui">>)),
              Fld("K", TInt, Tag1("deprecated", <<"0">>)),
              Fld("N", TInt, NoTags),
              Fld("Q", TString, Tag2("query", <<"q">>, "deprecated", <<"true">>)),
              Fld("P", TString, Tag2("query", <<"p">>, "deprecated", <<"f">>)) >>
      [] id = "Skip" ->       \* struct { A string; M int `json:"-"`; Z bool `json:"z"` }
           << Fld("A", TString, NoTags),
              Fld("M", TInt, Tag1("json", <<"-">>)),
              Fld("Z", TBool, Tag1("json", <<"z">>)) >>
      [] id = "Req" ->        \* struct { Q string `query:"q,required"`; P int `path:"p,required"`; H string `header:"X-C,required"` }
           << Fld("Q", TString, Tag1("query", <<"q", "required">>)),
              Fld("P", TInt, Tag1("path", <<"p", "required">>)),
              Fld("H", TString, Tag1("header", <<"X-C", "required">>)) >>
      [] id = "Def" ->        \* struct { Q int `query:"q" default:"5"`; P *int `path:"p" default:"5"`; H int8 `header:"X-C" default:"5"`; N string `query:"n"` }
           << Fld("Q", TInt, Tag2("query", <<"q">>, "default", <<"5">>)),
              Fld("P", Ptr(TInt), Tag2("path", <<"p">>, "default", <<"5">>)),
              Fld("H", TInt8, Tag2("header", <<"X-C">>, "default", <<"5">>)),
              Fld("N", TString, Tag1("query", <<"n">>)) >>
      [] id = "Multi" ->      \* struct { Q int `query:"q"`; N []int `query:"n"`; A [2]int `query:"a"`; Z string `query:"z"` }
           << Fld("Q", TInt, Tag1("query", <<"q">>)),
              Fld("N", SliceOf(TInt), Tag1("query", <<"n">>)),
              Fld("A", ArrayOf(2, TInt), Tag1("query", <<"a">>)),
              Fld("Z", TString, Tag1("query", <<"z">>)) >>
      [] id = "Dur" ->        \* struct { D time.Duration `query:"d"`; E *time.Duration `query:"e"`; F int `query:"f"` }
           << Fld("D", TDuration, Tag1("query", <<"d">>)),
              Fld("E", Ptr(TDuration), Tag1("query", <<"e">>)),
              Fld("F", TInt, Tag1("query", <<"f">>)) >>
      [] id = "After" ->      \* struct { A [1]int `query:"a"`; Z string `query:"z"`; P int `path:"p"` }
           << Fld("A", ArrayOf(1, TInt), Tag1("query", <<"a">>)),
              Fld("Z", TString, Tag1("query", <<"z">>)),
              Fld("P", TInt, Tag1("path", <<"p">>)) >>
      [] OTHER -> << >>

\* t.String(), kept as the list of its dot-separated pieces
TypeString(t) ==
    IF t.kind = "struct"
    THEN IF t.id = "Anon" THEN << "struct { A int }" >>
         ELSE IF t.id = "AnonDur" THEN << "struct { D time", "Duration }" >>
         ELSE IF t.id = "Time" THEN << "time", "Time" >>
         ELSE << "openapi", t.id >>
    ELSE << t.kind >>

\* t.Elem() of a defined slice type `type L []L`
NamedElem(id) == NamedSlice(id)

Elem(t) == IF "elem" \in DOMAIN t THEN t.elem ELSE NamedElem(t.id)

NumField(t) == Len(StructFields(t.id))
Field(t, i) == StructFields(t.id)[i]

(***************************************************************************)
(* Pure helpers of the generator                                           *)
(***************************************************************************)
\* strings.Title on the strings that occur as package and type names
Title(s) ==
    CASE s = "openapi" -> "Openapi"
      [] s = "conf" -> "Conf"
      [] s = "struct { D time" -> "Struct { D Time"
      [] OTHER -> s

\* typeName: the printed name is cut at its first dot; name[:sp] with sp = -1
\* (no dot) is a slice-bounds panic
typeName(t) ==
    LET name == TypeString(t)
        sp == IF Len(name) > 1 THEN 1 ELSE -1
    IN  IF sp = -1
        THEN [ok |-> FALSE, name |-> ""]
        ELSE LET pkg == IF name[1] = "main" THEN "" ELSE name[1]
                 typ == name[2]
             IN  [ok |-> TRUE, name |-> Title(pkg) \o Title(typ)]

DataTypeFromGo(t0) ==
    LET t == IF t0.kind = "ptr" THEN t0.elem ELSE t0
    IN  IF t = TTime THEN "TypeDateTime"
        ELSE IF t = SliceOf(TUint8) THEN "TypeByte"
        ELSE IF t.kind \in {"int64", "uint64"} THEN "TypeLong"
        ELSE IF t.kind \in {"int", "int8", "int16", "int32"} THEN "TypeInteger"
        ELSE IF t.kind \in {"uint", "uint8", "uint16", "uint32"} THEN "TypeInteger"
        ELSE IF t.kind = "float32" THEN "TypeFloat"
        ELSE IF t.kind = "float64" THEN "TypeDouble"
        ELSE IF t.kind = "bool" THEN "TypeBoolean"
        ELSE IF t.kind = "string" THEN "TypeString"
        ELSE IF t.kind \in {"func", "chan", "uintptr", "unsafe.Pointer",
                            "interface", "complex64", "complex128"}
        THEN "TypeUnsupported"
        ELSE "TypeComplex"

\* DataType.Type(): TypeUnsupported has no entry in the types array
DataTypeType(dt) ==
    CASE dt \in {"TypeInteger", "TypeLong"} -> "integer"
      [] dt \in {"TypeFloat", "TypeDouble"} -> "number"
      [] dt = "TypeBoolean" -> "boolean"
      [] dt = "TypeUnsupported" -> ""
      [] OTHER -> "string"

DataTypeFormat(dt) ==
    CASE dt = "TypeInteger" -> "int32"
      [] dt = "TypeLong" -> "int64"
      [] dt = "TypeFloat" -> "float"
      [] dt = "TypeDouble" -> "double"
      [] dt = "TypeByte" -> "byte"
      [] dt = "TypeBinary" -> "binary"
      [] dt = "TypeDate" -> "date"
      [] dt = "TypeDateTime" -> "date-time"
      [] dt = "TypePassword" -> "password"
      [] OTHER -> ""

\* strconv.ParseBool
ParseBool(s) ==
    IF s \in {"1", "t", "T", "TRUE", "true", "True"} THEN [err |-> FALSE, v |-> TRUE]
    ELSE IF s \in {"0", "f", "F", "FALSE", "false", "False"} THEN [err |-> FALSE, v |-> FALSE]
    ELSE [err |-> TRUE, v |-> FALSE]

\* the decimal literals the model's tags use, and their values
IntLiteral(s) ==
    CASE s = "1" -> 1 [] s = "2" -> 2 [] s = "3" -> 3 [] s = "5" -> 5
      [] s = "200" -> 200 [] s = "300" -> 300 [] s = "-1" -> -1
      [] OTHER -> 0

IsIntLiteral(s) == s \in {"0", "1", "2", "3", "5", "200", "300", "-1"}

Bits(t) ==
    IF t.kind \in {"int8", "uint8"} THEN 8
    ELSE IF t.kind \in {"int16", "uint16"} THEN 16
    ELSE IF t.kind \in {"int32", "uint32", "float32"} THEN 32
    ELSE 64

\* whether n fits the signed / unsigned integers of the given width; every
\* literal of IntLiteral fits 32 and 64 bits
FitsSigned(n, bits) ==
    IF bits = 8 THEN n >= -128 /\ n <= 127
    ELSE IF bits = 16 THEN n >= -32768 /\ n <= 32767
    ELSE TRUE

FitsUnsigned(n, bits) ==
    IF bits = 8 THEN n >= 0 /\ n <= 255
    ELSE IF bits = 16 THEN n >= 0 /\ n <= 65535
    ELSE n >= 0

\* the texts of the model that time.Parse(time.RFC3339, _) and
\* time.ParseDuration accept
TimeLiterals == {"2006-01-02T15:04:05Z"}
DurationLiterals == {"0", "1s"}

\* stringToType: the converted value, or an error
stringToType(val, t) ==
    LET bad == [err |-> TRUE, v |-> Nil]
        good(v) == [err |-> FALSE, v |-> v]
    IN  IF t.kind = "bool"
        THEN LET b == ParseBool(val)
             IN  IF b.err THEN bad ELSE good([k |-> "bool", b |-> b.v])
        ELSE IF t.kind = "string" THEN good([k |-> "string", s |-> val])
        ELSE IF t.kind \in {"int", "int8", "int16", "int32", "int64"}
        THEN IF IsIntLiteral(val) /\ FitsSigned(IntLiteral(val), Bits(t))
             THEN good([k |-> "int", n |-> IntLiteral(val)]) ELSE bad
        ELSE IF t.kind \in {"uint", "uint8", "uint16", "uint32", "uint64"}
        THEN IF IsIntLiteral(val) /\ FitsUnsigned(IntLiteral(val), Bits(t))
             THEN good([k |-> "int", n |-> IntLiteral(val)]) ELSE bad
        ELSE IF t.kind \in {"float32", "float64"}
        THEN IF IsIntLiteral(val) THEN good([k |-> "float", n |-> IntLiteral(val)]) ELSE bad
        ELSE IF t = TTime
        THEN IF val \in TimeLiterals THEN good([k |-> "time", s |-> val]) ELSE bad
        \* `if t.AssignableTo(tofByteSlice) { return time.ParseDuration(val) }`
        ELSE IF t = SliceOf(TUint8)
        THEN IF val \in DurationLiterals THEN good([k |-> "duration", s |-> val]) ELSE bad
        ELSE bad

\* the nanoseconds of a text time.ParseDuration accepts
DurationNanos(s) == IF s = "1s" THEN 1000000000 ELSE 0

\* stringToType as openapi/types.go has it: the known Go types are compared
\* before the switch over the kind, and a boolean never fails
stringToTypeTypesGo(val, t) ==
    LET bad == [err |-> TRUE, v |-> Nil]
        good(v) == [err |-> FALSE, v |-> v]
    IN  IF t = TTime
        THEN IF val \in TimeLiterals THEN good([k |-> "time", s |-> val]) ELSE bad
        ELSE IF t = TDuration
        THEN IF val \in DurationLiterals
             THEN good([k |-> "int", n |-> DurationNanos(val)]) ELSE bad
        ELSE IF t.kind = "bool" THEN good([k |-> "bool", b |-> ParseBool(val).v])
        ELSE IF t.kind = "string" THEN good([k |-> "string", s |-> val])
        ELSE IF t.kind \in {"int", "int8", "int16", "int32", "int64"}
        THEN IF IsIntLiteral(val) /\ FitsSigned(IntLiteral(val), Bits(t))
             THEN good([k |-> "int", n |-> IntLiteral(val)]) ELSE bad
        ELSE IF t.kind \in {"uint", "uint8", "uint16", "uint32", "uint64"}
        THEN IF IsIntLiteral(val) /\ FitsUnsigned(IntLiteral(val), Bits(t))
             THEN good([k |-> "int", n |-> IntLiteral(val)]) ELSE bad
        ELSE IF t.kind \in {"float32", "float64"}
        THEN IF IsIntLiteral(val) THEN good([k |-> "float", n |-> IntLiteral(val)]) ELSE bad
        ELSE bad

\* fieldNameFromTag: the name of a field in its serialization tag
fieldNameFromTag(sf, tagName) ==
    IF ~TagLookup(sf, tagName) THEN sf.name
    ELSE LET parts == SplitComma(sf.tags[tagName])
             name == parts[1]
         IN  IF name = "" THEN sf.name
             ELSE IF name = "-" THEN ""
             ELSE name

RECURSIVE RequiredIn(_, _)
RequiredIn(options, i) ==
    IF i > Len(options) THEN FALSE
    ELSE IF options[i] \in {"dive", "keys"} THEN FALSE
    ELSE IF options[i] = "required" THEN TRUE
    ELSE RequiredIn(options, i + 1)

\* isStructFieldRequired: `required` among the validator tag's options,
\* before any `dive` or `keys`
isStructFieldRequired(sf) ==
    IF TagLookup(sf, "validate")
    THEN RequiredIn(SplitComma(sf.tags["validate"]), 1)
    ELSE FALSE

\* tonic.ParseTagKey: the name is the part before the first comma
ParseTagKey(tag) == SplitComma(tag)[1]

\* mediaTags[tonic.MediaType()]: the default media type is application/json
MediaTag == "json"
MediaType == "application/json"

(***************************************************************************)
(* Schemas                                                                 *)
(***************************************************************************)
\* &Schema{}: every field at its zero value
Schema0 ==
    [type |-> "", format |-> "", nullable |-> FALSE, description |-> "",
     deprecated |-> FALSE, default |-> Nil, enum |-> <<>>,
     properties |-> EmptyMap, required |-> <<>>, items |-> Nil,
     additionalProperties |-> Nil,
     minimum |-> 0, maximum |-> 0, minLength |-> 0, maxLength |-> 0,
     minItems |-> 0, maxItems |-> 0, minProperties |-> 0, maxProperties |-> 0]

\* &SchemaOrRef{Schema: s} and &SchemaOrRef{Reference: ...}; the reference
\* text "#/components/schemas/" + name is kept as its slash-separated parts
Inline(s) == [k |-> "schema", schema |-> s]
RefTo(name) == [k |-> "ref", ref |-> <<"#", "components", "schemas", name>>]

(***************************************************************************)
(* The generator under a call: g is the generator's mutable state, threaded *)
(* through the calls; every operator returns [g, v].  Once g.status is not  *)
(* "ok" the call has crashed and nothing more is executed.                  *)
(***************************************************************************)
Ret(g, v) == [g |-> g, v |-> v]

\* a local variable: the value v, computed once, under the name F gives it
Bind(v, F(_)) == F(v)

\* g.error(...): append one generation error
error(g, msg, a, b) ==
    [g EXCEPT !.errors = Append(@, [msg |-> msg, a |-> a, b |-> b])]

Crash(g, how, why) == [g EXCEPT !.status = how, !.why = why]

Ok(g) == g.status = "ok"

\* schemaFromComponents: the inlined schema, or the registered one a
\* reference names.  The registry lookup of a missing name gives a nil
\* *SchemaOrRef, and reading its Schema field is a nil dereference.
schemaFromComponents(g, sor) ==
    IF sor.k = "schema" THEN Ret(g, sor.schema)
    ELSE IF sor.k = "ref"
    THEN LET parts == sor.ref
         IN  IF Len(parts) = 4 /\ parts[1] = "#" /\ parts[2] = "components"
                /\ parts[3] = "schemas" /\ parts[4] # ""
             THEN IF Has(g.components, parts[4])
                  THEN Ret(g, g.components[parts[4]].schema)
                  ELSE Ret(Crash(g, "panic", "nil component"), Nil)
             ELSE Ret(g, Nil)
    ELSE Ret(g, Nil)

\* the parse of one validator option `k=v`
OptKey(o) ==
    CASE o \in {"max=5", "max=-1"} -> "max"
      [] o = "min=1" -> "min"
      [] o = "len=3" -> "len"
      [] o = "eq=2" -> "eq"
      [] o = "gt=1" -> "gt"
      [] o = "lt=5" -> "lt"
      [] o = "gte=1" -> "gte"
      [] o = "lte=5" -> "lte"
      [] OTHER -> o

OptVal(o) ==
    CASE o \in {"max=5", "lt=5", "lte=5"} -> "5"
      [] o \in {"min=1", "gt=1", "gte=1"} -> "1"
      [] o = "len=3" -> "3"
      [] o = "eq=2" -> "2"
      [] o = "max=-1" -> "-1"
      [] OTHER -> ""

isNumber(t) ==
    t.kind \in {"int", "int8", "int16", "int32", "int64", "uint", "uint8",
                "uint16", "uint32", "uint64", "float32", "float64"}

setSchemaMax(schema, n, t) ==
    IF isNumber(t) THEN [schema EXCEPT !.maximum = n]
    ELSE IF Kind(t) = "string"
    THEN IF n >= 0 THEN [schema EXCEPT !.maxLength = n] ELSE schema
    ELSE IF Kind(t) = "map"
    THEN IF n >= 0 THEN [schema EXCEPT !.maxProperties = n] ELSE schema
    ELSE IF Kind(t) \in {"slice", "array"}
    THEN IF n >= 0 THEN [schema EXCEPT !.maxItems = n] ELSE schema
    ELSE schema

setSchemaMin(schema, n, t) ==
    IF isNumber(t) THEN [schema EXCEPT !.minimum = n]
    ELSE IF Kind(t) = "string"
    THEN IF n >= 0 THEN [schema EXCEPT !.minLength = n] ELSE schema
    ELSE IF Kind(t) = "map"
    THEN IF n >= 0 THEN [schema EXCEPT !.minProperties = n] ELSE schema
    ELSE IF Kind(t) \in {"slice", "array"}
    THEN IF n >= 0 THEN [schema EXCEPT !.minItems = n] ELSE schema
    ELSE schema

setSchemaLen(schema, n, t) == setSchemaMax(setSchemaMin(schema, n, t), n, t)

setSchemaEq(schema, n, t) ==
    IF Kind(t) \in {"map", "slice", "array"}
    THEN setSchemaMax(setSchemaMin(schema, n, t), n, t)
    ELSE schema

RECURSIVE ValidationFrom(_, _, _, _)
ValidationFrom(schema, opts, i, ft) ==
    IF i > Len(opts) \/ opts[i] \in {"dive", "keys"} THEN schema
    ELSE LET key == OptKey(opts[i])
             v == OptVal(opts[i])
             n == IntLiteral(v)
             next ==
                 IF key \in {"len", "max", "min", "eq", "gt", "gte", "lt", "lte"}
                    /\ IsIntLiteral(v)
                 THEN CASE key = "len" -> setSchemaLen(schema, n, ft)
                        [] key \in {"max", "lte"} -> setSchemaMax(schema, n, ft)
                        [] key \in {"min", "gte"} -> setSchemaMin(schema, n, ft)
                        [] key = "lt" -> setSchemaMax(schema, n - 1, ft)
                        [] key = "gt" -> setSchemaMin(schema, n + 1, ft)
                        [] key = "eq" -> setSchemaEq(schema, n, ft)
                 ELSE schema
         IN  ValidationFrom(next, opts, i + 1, ft)

\* updateSchemaValidation: the bounds of the validator tag, up to the first
\* `dive` or `keys`
updateSchemaValidation(schema, sf) ==
    LET ts == TagGet(sf, "validate")
        ft == IF sf.type.kind = "ptr" THEN sf.type.elem ELSE sf.type
    IN  IF ts = <<>> THEN schema ELSE ValidationFrom(schema, ts, 1, ft)

RECURSIVE EnumFrom(_, _, _, _, _, _)
\* the enum loop of newSchemaFromStructField; returns [g, v] with v the schema
EnumFrom(g, schema, values, i, sf, names) ==
    IF i > Len(values) THEN Ret(g, schema)
    ELSE LET c == stringToType(values[i], sf.type)
         IN  IF c.err
             THEN EnumFrom(error(g, "enum value cannot be converted", names[1], names[2]),
                           schema, values, i + 1, sf, names)
             ELSE EnumFrom(g, [schema EXCEPT !.enum = Append(@, c.v)],
                           values, i + 1, sf, names)

\* the tag-driven part of newSchemaFromStructField (default, enum,
\* description, deprecated, validation, format) applied to the schema
EnrichSchema(g, schema, sf, required, fname, pname) ==
    LET d == TagGet(sf, "default")
        es == TagGet(sf, "enum")
        dv == TagGet(sf, "deprecated")
        pb == ParseBool(IF dv = <<>> THEN "" ELSE dv[1])
        \* `if err == nil { deprecated = false }`
        deprecated == IF ~pb.err THEN FALSE ELSE pb.v
    IN  Bind(IF d # <<>>
             THEN IF required
                  THEN Ret(error(g, "field cannot be required and have a default value",
                                 fname, pname), schema)
                  ELSE LET c == stringToType(d[1], sf.type)
                       IN  IF c.err
                           THEN Ret(error(g, "default value cannot be converted",
                                          fname, pname), schema)
                           ELSE Ret(g, [schema EXCEPT !.default = c.v])
             ELSE Ret(g, schema),
             LAMBDA r1 :
        Bind(IF es # <<>>
             THEN EnumFrom(r1.g, r1.v, SplitComma(es), 1, sf, <<fname, pname>>)
             ELSE r1,
             LAMBDA r2 :
        Bind(IF TagLookup(sf, "description")
             THEN [r2.v EXCEPT !.description =
                       IF sf.tags["description"] = <<>> THEN ""
                       ELSE sf.tags["description"][1]]
             ELSE r2.v,
             LAMBDA s3 :
        Bind(updateSchemaValidation([s3 EXCEPT !.deprecated = deprecated], sf),
             LAMBDA s5 :
             Ret(r2.g,
                 IF TagLookup(sf, "format")
                 THEN [s5 EXCEPT !.format = IF sf.tags["format"] = <<>> THEN ""
                                            ELSE sf.tags["format"][1]]
                 ELSE s5)))))

(***************************************************************************)
(* Schema building                                                         *)
(***************************************************************************)
RECURSIVE newSchemaFromType(_, _)
RECURSIVE buildSchemaRecursive(_, _, _)
RECURSIVE newSchemaFromStruct(_, _)
RECURSIVE FlattenFrom(_, _, _, _, _, _)
RECURSIVE newSchemaFromStructField(_, _, _, _, _)

\* newSchemaFromStructField: the schema of the field's type, enriched from
\* the field's tags.  The enrichment writes to the schema schemaFromComponents
\* returned: the inlined one, or the one registered under the referenced name.
newSchemaFromStructField(g, sf, required, fname, pname) ==
    Bind(newSchemaFromType(g, sf.type), LAMBDA r :
    IF ~Ok(r.g) \/ r.v.k = "nil" THEN Ret(r.g, Nil)
    ELSE Bind(schemaFromComponents(r.g, r.v), LAMBDA c :
         IF ~Ok(c.g) \/ "k" \in DOMAIN c.v THEN Ret(c.g, Nil)
         ELSE Bind(EnrichSchema(c.g, c.v, sf, required, fname, pname), LAMBDA e :
              IF r.v.k = "schema"
              THEN Ret(e.g, Inline(e.v))
              ELSE Ret([e.g EXCEPT !.components = Put(@, r.v.ref[4], Inline(e.v))],
                       r.v))))

\* flattenStructSchema's embedded case without the comparison with the
\* topmost parent: every embedded struct is flattened in place
FlattenEmbeddedNoSkip(g, ft, parent, schema, stk) ==
    IF ft \in stk THEN Ret(Crash(g, "overflow", "flattenStructSchema"), schema)
    ELSE FlattenFrom(g, ft, parent, schema, 1, stk \cup {ft})

\* one embedded struct met while flattening t's fields into schema: skipped
\* when it is the topmost parent, flattened in place otherwise.  stk holds the
\* types whose flattening is on the call stack: meeting one of them again
\* repeats the same calls without end, until the stack overflows.
FlattenEmbedded(g, ft, parent, schema, stk) ==
    IF ft = parent THEN Ret(g, schema)
    ELSE IF ft \in stk THEN Ret(Crash(g, "overflow", "flattenStructSchema"), schema)
    ELSE FlattenFrom(g, ft, parent, schema, 1, stk \cup {ft})

\* the loop of flattenStructSchema from field i on
FlattenFrom(g, t, parent, schema, i, stk) ==
    IF ~Ok(g) \/ i > NumField(t) THEN Ret(g, schema)
    ELSE LET f == Field(t, i)
             ft == IF f.type.kind = "ptr" THEN f.type.elem ELSE f.type
         IN  IF ~f.exported THEN FlattenFrom(g, t, parent, schema, i + 1, stk)
             ELSE IF f.anon /\ Kind(ft) = "struct"
             THEN Bind(FlattenEmbedded(g, ft, parent, schema, stk), LAMBDA r :
                       FlattenFrom(r.g, t, parent, r.v, i + 1, stk))
             ELSE LET fname == fieldNameFromTag(f, MediaTag)
                  IN  IF fname = "" THEN Ret(g, schema)   \* `return schema`
                      ELSE LET required == isStructFieldRequired(f)
                               s1 == IF required
                                     THEN [schema EXCEPT !.required = Append(@, fname)]
                                     ELSE schema
                               tn == typeName(t)
                           IN  IF ~tn.ok
                               THEN Ret(Crash(g, "panic", "typeName"), s1)
                               ELSE Bind(newSchemaFromStructField(
                                             g, f, required, fname, tn.name),
                                         LAMBDA r :
                                         FlattenFrom(
                                             r.g, t, parent,
                                             [s1 EXCEPT !.properties = Put(@, fname, r.v)],
                                             i + 1, stk))

\* flattenStructSchema: the fields of t, with its embedded structs, as the
\* properties of schema
flattenStructSchema(g, t, parent, schema) ==
    FlattenFrom(g, t, parent, schema, 1, {t})

\* newSchemaFromStruct handing out the reference of a named struct without
\* building and registering its schema
newSchemaFromStructRefOnly(g, t) ==
    IF Kind(t) # "struct" THEN Ret(g, Nil)
    ELSE IF ~typeName(t).ok THEN Ret(Crash(g, "panic", "typeName"), Nil)
    ELSE Ret([g EXCEPT !.schemaTypes = @ \cup {t}], RefTo(typeName(t).name))
\* newSchemaFromStruct: a reference to the registered schema of a named
\* struct, building and registering it first if needed; an unnamed struct is
\* inlined
newSchemaFromStruct(g, t) ==
    IF Kind(t) # "struct" THEN Ret(g, Nil)
    ELSE LET tn == typeName(t)
         IN  IF ~tn.ok THEN Ret(Crash(g, "panic", "typeName"), Nil)
             ELSE IF t \in g.schemaTypes THEN Ret(g, RefTo(tn.name))
             ELSE LET g1 == IF tn.name # ""
                            THEN [g EXCEPT !.schemaTypes = @ \cup {t}]
                            ELSE g
                  IN  Bind(flattenStructSchema(
                               g1, t, t, [Schema0 EXCEPT !.type = "object"]),
                           LAMBDA r :
                           IF ~Ok(r.g) THEN Ret(r.g, Nil)
                           ELSE IF tn.name # ""
                           THEN Ret([r.g EXCEPT !.components =
                                         Put(@, tn.name, Inline(r.v))],
                                    RefTo(tn.name))
                           ELSE Ret(r.g, Inline(r.v)))

\* buildSchemaRecursive without the check of the key type of a map
buildSchemaRecursiveAnyKey(g, t, stk) ==
    IF t \in stk THEN Ret(Crash(g, "overflow", "buildSchemaRecursive"), Nil)
    ELSE IF Kind(t) = "ptr" THEN buildSchemaRecursive(g, t.elem, stk \cup {t})
    ELSE IF Kind(t) = "struct" THEN newSchemaFromStruct(g, t)
    ELSE IF Kind(t) = "map"
    THEN LET schema == [Schema0 EXCEPT !.type = "object"]
         IN  Bind(buildSchemaRecursive(g, Elem(t), stk \cup {t}), LAMBDA r :
                  IF ~Ok(r.g) THEN Ret(r.g, Nil)
                  ELSE Ret(r.g, Inline([schema EXCEPT !.additionalProperties = r.v])))
    ELSE IF Kind(t) \in {"slice", "array"}
    THEN LET schema == IF Kind(t) = "array"
                       THEN [Schema0 EXCEPT !.type = "array",
                                            !.minItems = t.len, !.maxItems = t.len]
                       ELSE [Schema0 EXCEPT !.type = "array"]
         IN  Bind(buildSchemaRecursive(g, Elem(t), stk \cup {t}), LAMBDA r :
                  IF ~Ok(r.g) THEN Ret(r.g, Nil)
                  ELSE Ret(r.g, Inline([schema EXCEPT !.items = r.v])))
    ELSE LET dt == DataTypeFromGo(t)
         IN  Ret(g, Inline([Schema0 EXCEPT !.type = DataTypeType(dt),
                                           !.format = DataTypeFormat(dt)]))
\* buildSchemaRecursive: maps, slices and arrays, down to their elements.
\* stk holds the types whose decomposition is on the call stack.
buildSchemaRecursive(g, t, stk) ==
    IF t \in stk THEN Ret(Crash(g, "overflow", "buildSchemaRecursive"), Nil)
    ELSE IF Kind(t) = "ptr" THEN buildSchemaRecursive(g, t.elem, stk \cup {t})
    ELSE IF Kind(t) = "struct" THEN newSchemaFromStruct(g, t)
    ELSE IF Kind(t) = "map"
    THEN LET schema == [Schema0 EXCEPT !.type = "object"]
         IN  IF Kind(t.key) # "string"
             THEN Ret(error(g, "map with keys of unsupported type", Kind(t.key), ""),
                      Inline(schema))
             ELSE Bind(buildSchemaRecursive(g, Elem(t), stk \cup {t}), LAMBDA r :
                       IF ~Ok(r.g) THEN Ret(r.g, Nil)
                       ELSE Ret(r.g, Inline([schema EXCEPT !.additionalProperties = r.v])))
    ELSE IF Kind(t) \in {"slice", "array"}
    THEN LET schema == IF Kind(t) = "array"
                       THEN [Schema0 EXCEPT !.type = "array",
                                            !.minItems = t.len, !.maxItems = t.len]
                       ELSE [Schema0 EXCEPT !.type = "array"]
         IN  Bind(buildSchemaRecursive(g, Elem(t), stk \cup {t}), LAMBDA r :
                  IF ~Ok(r.g) THEN Ret(r.g, Nil)
                  ELSE Ret(r.g, Inline([schema EXCEPT !.items = r.v])))
    ELSE LET dt == DataTypeFromGo(t)
         IN  Ret(g, Inline([Schema0 EXCEPT !.type = DataTypeType(dt),
                                           !.format = DataTypeFormat(dt)]))

\* newSchemaFromType: the schema of a type, nil with a recorded error for an
\* unsupported one
newSchemaFromType(g, t0) ==
    IF t0.kind = "nil" THEN Ret(g, Nil)
    ELSE LET nullable == t0.kind = "ptr"
             t == IF nullable THEN t0.elem ELSE t0
             dt == DataTypeFromGo(t)
         IN  IF dt = "TypeUnsupported"
             THEN Ret(error(g, "encountered unsupported type", Kind(t), ""), Nil)
             ELSE IF dt = "TypeComplex"
             THEN IF Kind(t) \in {"slice", "array", "map"}
                  THEN buildSchemaRecursive(g, t, {})
                  ELSE IF Kind(t) = "struct" THEN newSchemaFromStruct(g, t)
                  ELSE Ret(error(g, "encountered unknown type", Kind(t), ""), Nil)
             ELSE Ret(g, Inline([Schema0 EXCEPT !.type = DataTypeType(dt),
                                                !.format = DataTypeFormat(dt),
                                                !.nullable = nullable]))

(***************************************************************************)
(* Operations                                                              *)
(***************************************************************************)
Methods == {"GET", "PUT", "POST", "PATCH", "HEAD", "OPTIONS", "TRACE", "DELETE"}

\* new(PathItem): no operation for any method
PathItem0 == [m \in Methods |-> Nil]

\* a path is the list of its segments; a Gin parameter segment `:name` is
\* [colon |-> TRUE, name |-> ...], an OpenAPI one `{name}` is brace
Lit(name) == [style |-> "literal", name |-> name]
Colon(name) == [style |-> "colon", name |-> name]
Brace(name) == [style |-> "brace", name |-> name]

\* rewritePath: `/:name` becomes `/{name}`
rewritePath(path) ==
    [i \in 1..Len(path) |->
        IF path[i].style = "colon" THEN Brace(path[i].name) ELSE path[i]]

\* setOperationBymethod: the operation takes the method's slot of the item,
\* whatever the slot held; an unknown method sets nothing
setOperationBymethod(item, op, method) ==
    IF method \in Methods THEN [item EXCEPT ![method] = op] ELSE item

\* locationsOrder and the comparison of names (Go's < on strings, for the
\* names the model uses)
locationsOrder(loc) ==
    CASE loc = "path" -> 0 [] loc = "query" -> 1 [] loc = "header" -> 2 [] OTHER -> 3

NameOrder ==
    <<"X-C", "a", "b", "bar", "baz", "foo", "i", "n", "ok", "p", "q", "r", "t", "z">>

NameRank(name) == CHOOSE i \in 1..Len(NameOrder) : NameOrder[i] = name

paramyByName(p1, p2) == NameRank(p1.name) < NameRank(p2.name)

paramyByLocation(p1, p2) == locationsOrder(p1.in) < locationsOrder(p2.in)

\* multiSorter.Less for the keys (location, name)
ParamLess(p, q) ==
    IF paramyByLocation(p, q) THEN TRUE
    ELSE IF paramyByLocation(q, p) THEN FALSE
    ELSE paramyByName(p, q)

RECURSIVE InsertParam(_, _)
InsertParam(sorted, p) ==
    IF sorted = <<>> THEN <<p>>
    ELSE IF ParamLess(p, Head(sorted)) THEN <<p>> \o sorted
    ELSE <<Head(sorted)>> \o InsertParam(Tail(sorted), p)

RECURSIVE SortFrom(_, _, _)
SortFrom(params, i, acc) ==
    IF i > Len(params) THEN acc ELSE SortFrom(params, i + 1, InsertParam(acc, params[i]))

\* paramsOrderedBy(paramyByLocation, paramyByName).Sort(params)
SortParams(params) == SortFrom(params, 1, <<>>)

\* the result of the calls that return an error: err = "" stands for nil
RetOp(g, op, err) == [g |-> g, v |-> [op |-> op, err |-> err]]

\* paramLocation without the count of the tags found: the first location
\* tag of the field wins
paramLocationFirst(f, in) ==
    LET parameterLocations == <<"path", "query", "header">>
        found == {i \in 1..3 : TagLookup(f, parameterLocations[i])}
    IN  IF found = {} THEN [loc |-> "", err |-> "", ok |-> TRUE]
        ELSE [loc |-> parameterLocations[CHOOSE i \in found : \A j \in found : i <= j],
              err |-> "", ok |-> TRUE]

\* paramLocation: the one location tag of the field, "" when it has none, an
\* error when it has more than one
paramLocation(f, in) ==
    LET parameterLocations == <<"path", "query", "header">>
        found == {i \in 1..3 : TagLookup(f, parameterLocations[i])}
        c == Cardinality(found)
    IN  IF c = 0 THEN [loc |-> "", err |-> "", ok |-> TRUE]
        ELSE IF c > 1
        THEN [loc |-> "", err |-> "conflicting parameter location", ok |-> typeName(in).ok]
        ELSE [loc |-> parameterLocations[CHOOSE i \in found : TRUE], err |-> "", ok |-> TRUE]

\* newParameterFromField: the parameter of a field with a location tag, nil
\* for a field without one.  Returns [g, v |-> [param, err]].
newParameterFromField(g, idx, t) ==
    LET field == Field(t, idx)
        pl == paramLocation(field, t)
    IN  IF ~pl.ok THEN Ret(Crash(g, "panic", "typeName"), [param |-> Nil, err |-> ""])
        ELSE IF pl.err # "" THEN Ret(g, [param |-> Nil, err |-> pl.err])
        ELSE IF pl.loc = "" THEN Ret(g, [param |-> Nil, err |-> ""])
        ELSE LET name == ParseTagKey(TagGet(field, pl.loc))
                 required == IF pl.loc = "path" THEN TRUE
                             ELSE isStructFieldRequired(field)
                 dv == TagGet(field, "deprecated")
                 pb == ParseBool(IF dv = <<>> THEN "" ELSE dv[1])
                 deprecated == IF ~pb.err THEN FALSE ELSE pb.v
                 desc == TagGet(field, "description")
                 tn == typeName(t)
             IN  IF ~tn.ok
                 THEN Ret(Crash(g, "panic", "typeName"), [param |-> Nil, err |-> ""])
                 ELSE Bind(newSchemaFromStructField(g, field, required, name, tn.name),
                           LAMBDA r :
                           Ret(r.g,
                               [param |->
                                   [k |-> "param", name |-> name, in |-> pl.loc,
                                    description |-> IF desc = <<>> THEN "" ELSE desc[1],
                                    required |-> required, deprecated |-> deprecated,
                                    schema |-> r.v,
                                    allowEmptyValue |->
                                        (Kind(field.type) = "bool" /\ pl.loc = "query")],
                                err |-> ""]))

\* addStructFieldToOperation with a duplicate check that compares the names
\* of the parameters and not their locations
addStructFieldByName(g, op, t, idx, allowBody) ==
    Bind(newParameterFromField(g, idx, t), LAMBDA r :
    LET sf == Field(t, idx)
        param == r.v.param
    IN  IF ~Ok(r.g) THEN RetOp(r.g, op, "")
        ELSE IF r.v.err # "" THEN RetOp(r.g, op, r.v.err)
        ELSE IF param.k # "nil"
        THEN IF \E i \in 1..Len(op.parameters) :
                    op.parameters[i].name = param.name
             THEN RetOp(error(r.g, "duplicate parameter", param.name, param.in), op, "")
             ELSE RetOp(r.g, [op EXCEPT !.parameters = Append(@, param)], "")
        ELSE IF ~allowBody THEN RetOp(r.g, op, "")
        ELSE IF TagGet(sf, "binding") = <<"-">> THEN RetOp(r.g, op, "")
        ELSE LET schema == IF op.requestBody.k = "nil"
                           THEN [Schema0 EXCEPT !.type = "object"]
                           ELSE op.requestBody.schema
                 fname == fieldNameFromTag(sf, MediaTag)
                 tn == typeName(t)
             IN  IF ~tn.ok THEN RetOp(Crash(r.g, "panic", "typeName"), op, "")
                 ELSE IF Has(schema.properties, fname)
                 THEN RetOp(error(r.g, "duplicate request body parameter", fname, tn.name),
                            [op EXCEPT !.requestBody = [k |-> "body", schema |-> schema]],
                            "")
                 ELSE LET required == fname # "" /\ isStructFieldRequired(sf)
                          s1 == IF required
                                THEN [schema EXCEPT !.required = Append(@, fname)]
                                ELSE schema
                      IN  Bind(newSchemaFromStructField(r.g, sf, required, fname, tn.name),
                               LAMBDA f :
                               RetOp(f.g,
                                     [op EXCEPT !.requestBody =
                                         [k |-> "body",
                                          schema |-> [s1 EXCEPT !.properties =
                                                          Put(@, fname, f.v)]]],
                                     "")))

\* addStructFieldToOperation: field idx of t becomes a parameter of op when it
\* has a location tag, a property of the request body otherwise
addStructFieldToOperation(g, op, t, idx, allowBody) ==
    Bind(newParameterFromField(g, idx, t), LAMBDA r :
    LET sf == Field(t, idx)
        param == r.v.param
    IN  IF ~Ok(r.g) THEN RetOp(r.g, op, "")
        ELSE IF r.v.err # "" THEN RetOp(r.g, op, r.v.err)
        ELSE IF param.k # "nil"
        THEN IF \E i \in 1..Len(op.parameters) :
                    op.parameters[i].name = param.name /\ op.parameters[i].in = param.in
             THEN RetOp(error(r.g, "duplicate parameter", param.name, param.in), op, "")
             ELSE RetOp(r.g, [op EXCEPT !.parameters = Append(@, param)], "")
        ELSE IF ~allowBody THEN RetOp(r.g, op, "")
        ELSE IF TagGet(sf, "binding") = <<"-">> THEN RetOp(r.g, op, "")
        ELSE LET schema == IF op.requestBody.k = "nil"
                           THEN [Schema0 EXCEPT !.type = "object"]
                           ELSE op.requestBody.schema
                 fname == fieldNameFromTag(sf, MediaTag)
                 tn == typeName(t)
             IN  IF ~tn.ok THEN RetOp(Crash(r.g, "panic", "typeName"), op, "")
                 ELSE IF Has(schema.properties, fname)
                 THEN RetOp(error(r.g, "duplicate request body parameter", fname, tn.name),
                            [op EXCEPT !.requestBody = [k |-> "body", schema |-> schema]],
                            "")
                 ELSE LET required == fname # "" /\ isStructFieldRequired(sf)
                          s1 == IF required
                                THEN [schema EXCEPT !.required = Append(@, fname)]
                                ELSE schema
                      IN  Bind(newSchemaFromStructField(r.g, sf, required, fname, tn.name),
                               LAMBDA f :
                               RetOp(f.g,
                                     [op EXCEPT !.requestBody =
                                         [k |-> "body",
                                          schema |-> [s1 EXCEPT !.properties =
                                                          Put(@, fname, f.v)]]],
                                     "")))

RECURSIVE ParamsFrom(_, _, _, _, _, _, _)

\* one embedded struct met by setOperationParams: skipped with a recorded
\* error when it is the topmost parent, expanded in place otherwise (the
\* expansion sorts the parameters when it returns).  stk holds the types whose
\* expansion is on the call stack.
ParamsEmbedded(g, op, sf, sft, parent, allowBody, stk) ==
    IF sft = parent
    THEN LET tn == typeName(parent)
         IN  IF ~tn.ok THEN RetOp(Crash(g, "panic", "typeName"), op, "")
             ELSE RetOp(error(g, "skipped recursive embeding", tn.name, sf.name), op, "")
    ELSE IF sft \in stk THEN RetOp(Crash(g, "overflow", "setOperationParams"), op, "")
    ELSE Bind(ParamsFrom(g, op, sft, parent, allowBody, 1, stk \cup {sft}), LAMBDA r :
              IF ~Ok(r.g) \/ r.v.err # "" THEN r
              ELSE RetOp(r.g, [r.v.op EXCEPT !.parameters = SortParams(@)], ""))

\* the loop of setOperationParams from field i on
ParamsFrom(g, op, t, parent, allowBody, i, stk) ==
    IF ~Ok(g) \/ i > NumField(t) THEN RetOp(g, op, "")
    ELSE LET sf == Field(t, i)
             sft == IF sf.type.kind = "ptr" THEN sf.type.elem ELSE sf.type
         IN  IF ~sf.exported THEN ParamsFrom(g, op, t, parent, allowBody, i + 1, stk)
             ELSE Bind(IF sf.anon /\ Kind(sft) = "struct"
                       THEN ParamsEmbedded(g, op, sf, sft, parent, allowBody, stk)
                       ELSE addStructFieldToOperation(g, op, t, i, allowBody),
                       LAMBDA r :
                       IF ~Ok(r.g) \/ r.v.err # "" THEN r
                       ELSE ParamsFrom(r.g, r.v.op, t, parent, allowBody, i + 1, stk))

\* setOperationParams without the sort that ends it
setOperationParamsUnsorted(g, op, t, parent, allowBody) ==
    IF Kind(t) # "struct" THEN RetOp(g, op, "")
    ELSE ParamsFrom(g, op, t, parent, allowBody, 1, {t})

\* setOperationParams: the fields of the input struct t as the parameters and
\* the request body of op, the parameters sorted at the end
setOperationParams(g, op, t, parent, allowBody) ==
    IF Kind(t) # "struct" THEN RetOp(g, op, "")
    ELSE Bind(ParamsFrom(g, op, t, parent, allowBody, 1, {t}), LAMBDA r :
              IF ~Ok(r.g) \/ r.v.err # "" THEN r
              ELSE RetOp(r.g, [r.v.op EXCEPT !.parameters = SortParams(@)], ""))

\* strconv.Itoa and strconv.Atoi on the status codes the model uses
Itoa(n) ==
    CASE n = 200 -> "200" [] n = 201 -> "201" [] n = 204 -> "204"
      [] n = 404 -> "404" [] n = 777 -> "777" [] OTHER -> "0"

Atoi(code) ==
    CASE code = "200" -> [err |-> FALSE, n |-> 200]
      [] code = "201" -> [err |-> FALSE, n |-> 201]
      [] code = "204" -> [err |-> FALSE, n |-> 204]
      [] code = "404" -> [err |-> FALSE, n |-> 404]
      [] code = "777" -> [err |-> FALSE, n |-> 777]
      [] code = "0" -> [err |-> FALSE, n |-> 0]
      [] OTHER -> [err |-> TRUE, n |-> 0]

\* http.StatusText: the empty string for a code it does not know
StatusText(n) ==
    CASE n = 200 -> "OK" [] n = 201 -> "Created" [] n = 204 -> "No Content"
      [] n = 404 -> "Not Found" [] OTHER -> ""

\* the operation info and its parts
Header(name, model) == [name |-> name, model |-> model]
Response(code, desc, model) ==
    [code |-> code, description |-> desc, model |-> model, headers |-> <<>>]
Info(summary, code, desc, headers, responses) ==
    [k |-> "info", summary |-> summary, statusCode |-> code,
     statusDescription |-> desc, headers |-> headers, responses |-> responses]

RECURSIVE HeadersFrom(_, _, _, _)
\* the header loop of setOperationResponse; returns [g, v] with v the headers
HeadersFrom(g, acc, headers, i) ==
    IF ~Ok(g) \/ i > Len(headers) THEN Ret(g, acc)
    ELSE LET h == headers[i]
         IN  Bind(IF h.model.kind = "nil"
                  THEN Ret(g, Inline([Schema0 EXCEPT !.type = "string"]))
                  ELSE newSchemaFromType(g, h.model),
                  LAMBDA r : HeadersFrom(r.g, Put(acc, h.name, r.v), headers, i + 1))

\* setOperationResponse: one response of op under code; an error when the
\* code is taken or is no integer while the description is empty
setOperationResponse(g, op, t, code, mt, desc, headers) ==
    IF Has(op.responses, code) THEN RetOp(g, op, "response already exists")
    ELSE IF desc = "" /\ code # "default" /\ Atoi(code).err
    THEN RetOp(g, op, "invalid syntax")
    ELSE LET d == IF desc = "" /\ code # "default"
                  THEN StatusText(Atoi(code).n) ELSE desc
         IN  Bind(newSchemaFromType(g, t), LAMBDA r :
             Bind(HeadersFrom(r.g, EmptyMap, headers, 1), LAMBDA hs :
                  IF ~Ok(hs.g) THEN RetOp(hs.g, op, "")
                  ELSE RetOp(hs.g,
                             [op EXCEPT !.responses =
                                 Put(@, code, [description |-> d,
                                               content |-> IF r.v.k = "nil" THEN EmptyMap
                                                           ELSE Put(EmptyMap, mt, r.v),
                                               headers |-> hs.v])],
                             "")))

RECURSIVE ResponsesFrom(_, _, _, _)
\* the loop of AddOperation over info.Responses
ResponsesFrom(g, op, responses, i) ==
    IF ~Ok(g) \/ i > Len(responses) THEN RetOp(g, op, "")
    ELSE LET resp == responses[i]
         IN  Bind(setOperationResponse(g, op, resp.model, resp.code, MediaType,
                                       resp.description, resp.headers),
                  LAMBDA r :
                  IF ~Ok(r.g) \/ r.v.err # "" THEN r
                  ELSE ResponsesFrom(r.g, r.v.op, responses, i + 1))

\* the body allowance without DELETE among the methods that have no body
AllowBodyGetHead(method) == method # "GET" /\ method # "HEAD"

\* operations with the methods GET, HEAD and DELETE cannot have a body
AllowBody(method) == method # "GET" /\ method # "HEAD" /\ method # "DELETE"

\* AddOperation: returns [g, err]; err = "" stands for nil
AddOperation(g, path0, method, tag, id, in0, out0, info) ==
    LET path == rewritePath(path0)
        g1 == IF Has(g.paths, path) THEN g
              ELSE [g EXCEPT !.paths = Put(@, path, PathItem0)]
    IN  IF info.k = "nil"
        THEN [g |-> Crash(g1, "panic", "nil info"), err |-> ""]  \* info.Summary
        ELSE
        LET op0 == [id |-> id, summary |-> info.summary,
                    tags |-> IF tag # "" THEN <<tag>> ELSE <<>>,
                    parameters |-> <<>>, requestBody |-> Nil, responses |-> EmptyMap]
            allowBody == AllowBody(method)
            in == IF in0.kind = "ptr" THEN in0.elem ELSE in0
            out == IF out0.kind = "ptr" THEN out0.elem ELSE out0
        IN  Bind(IF in0.kind = "nil" THEN RetOp(g1, op0, "")
                 ELSE IF Kind(in) # "struct"
                 THEN RetOp(g1, op0, "input type is not a struct")
                 ELSE setOperationParams(g1, op0, in, in, allowBody),
                 LAMBDA rin :
            Bind(IF ~Ok(rin.g) \/ rin.v.err # "" \/ out0.kind = "nil" THEN rin
                 ELSE setOperationResponse(rin.g, rin.v.op, out,
                                           Itoa(info.statusCode), MediaType,
                                           info.statusDescription, info.headers),
                 LAMBDA rout :
            Bind(IF ~Ok(rout.g) \/ rout.v.err # "" THEN rout
                 ELSE ResponsesFrom(rout.g, rout.v.op, info.responses, 1),
                 LAMBDA rall :
                 IF ~Ok(rall.g) \/ rall.v.err # ""
                 THEN [g |-> rall.g, err |-> rall.v.err]
                 ELSE [g |-> [rall.g EXCEPT !.paths[path] =
                                  setOperationBymethod(@, rall.v.op, method)],
                       err |-> ""])))

(***************************************************************************)
(* The request binder (package tonic)                                      *)
(***************************************************************************)
RECURSIVE ZeroOf(_)
\* reflect.New(t).Elem(): the zero value of a type
ZeroOf(t) ==
    IF Kind(t) = "ptr" THEN [k |-> "nilptr"]
    ELSE IF Kind(t) = "struct"
    THEN [k |-> "struct",
          f |-> [ n \in { Field(t, i).name : i \in 1..NumField(t) } |->
                    ZeroOf((CHOOSE fl \in { Field(t, i) : i \in 1..NumField(t) } :
                                fl.name = n).type) ]]
    ELSE IF Kind(t) = "slice" THEN [k |-> "slice", elems |-> <<>>]
    ELSE IF Kind(t) = "array"
    THEN [k |-> "array", elems |-> [ i \in 1..t.len |-> ZeroOf(t.elem) ]]
    ELSE IF Kind(t) = "string" THEN [k |-> "string", s |-> ""]
    ELSE IF Kind(t) = "bool" THEN [k |-> "bool", b |-> FALSE]
    ELSE IF Kind(t) \in {"float32", "float64"} THEN [k |-> "float", n |-> 0]
    ELSE [k |-> "int", n |-> 0]

\* a request: the method, the body ("none" for no content, "{}" for an empty
\* JSON object, "bad" for a text that is no JSON), the values of the query
\* string by name, the path parameters and the headers by name
Request(method, body, query, path, header) ==
    [method |-> method, body |-> body, query |-> query, path |-> path,
     header |-> header]

\* c.Request.URL.Query()[name]: no values for a name that is absent
QueryValues(c, name) == IF Has(c.query, name) THEN c.query[name] ELSE <<>>
\* c.Param(name), c.GetHeader(name): the empty string when absent
Param(c, name) == IF Has(c.path, name) THEN c.path[name] ELSE ""
GetHeader(c, name) == IF Has(c.header, name) THEN c.header[name] ELSE ""

\* tonic.ParseTagKey: whether the options after the name hold `required`
ParseTagRequired(tag) ==
    \E i \in 2..Len(SplitComma(tag)) : SplitComma(tag)[i] = "required"

\* the result of an extractor: the name, the raw values, the error
Extracted(name, values, err) == [name |-> name, values |-> values, err |-> err]

extractQuery(c, tag) ==
    LET name == ParseTagKey(tag)
        q == QueryValues(c, name)
    IN  IF ParseTagRequired(tag) /\ Len(q) = 0
        THEN Extracted("", <<>>, "missing query parameter")
        ELSE Extracted(name, q, "")

extractPath(c, tag) ==
    LET name == ParseTagKey(tag)
        p == Param(c, name)
    IN  IF ParseTagRequired(tag) /\ p = ""
        THEN Extracted("", <<>>, "missing path parameter")
        ELSE Extracted(name, <<p>>, "")

extractHeader(c, tag) ==
    LET name == ParseTagKey(tag)
        header == GetHeader(c, name)
    IN  IF ParseTagRequired(tag) /\ header = ""
        THEN Extracted("", <<>>, "missing header parameter")
        ELSE Extracted(name, <<header>>, "")

\* the extractor bind is called with for a tag
extract(c, tag, tagValue) ==
    IF tag = "query" THEN extractQuery(c, tagValue)
    ELSE IF tag = "path" THEN extractPath(c, tagValue)
    ELSE extractHeader(c, tagValue)

\* &BindError{field, typ, message}
BindError(field, typ, message) ==
    [k |-> "BindError", field |-> field, typ |-> typ, message |-> message]

\* bindStringValue: the text s converted to the type of the value it is set
\* on; err = "" stands for nil.  A duration is set and the switch over the
\* kind, int64 for a duration, runs all the same.  No type of the model
\* implements encoding.TextUnmarshaler on its value.
bindStringValue(s, t, canSet) ==
    LET bad(msg) == [err |-> msg, v |-> Nil]
        good(v) == [err |-> "", v |-> v]
    IN  IF ~canSet THEN bad("unaddressable value")
        ELSE IF t = TDuration /\ s \notin DurationLiterals THEN bad("invalid duration")
        ELSE IF t.kind = "string" THEN good([k |-> "string", s |-> s])
        ELSE IF t.kind \in {"int", "int8", "int16", "int32", "int64"}
        THEN IF IsIntLiteral(s) /\ FitsSigned(IntLiteral(s), Bits(t))
             THEN good([k |-> "int", n |-> IntLiteral(s)]) ELSE bad("invalid syntax")
        ELSE IF t.kind \in {"uint", "uint8", "uint16", "uint32", "uint64"}
        THEN IF IsIntLiteral(s) /\ FitsUnsigned(IntLiteral(s), Bits(t))
             THEN good([k |-> "int", n |-> IntLiteral(s)]) ELSE bad("invalid syntax")
        ELSE IF t.kind = "bool"
        THEN IF ParseBool(s).err THEN bad("invalid syntax")
             ELSE good([k |-> "bool", b |-> ParseBool(s).v])
        ELSE IF t.kind \in {"float32", "float64"}
        THEN IF IsIntLiteral(s) THEN good([k |-> "float", n |-> IntLiteral(s)])
             ELSE bad("invalid syntax")
        ELSE bad("unsupported parameter type")

\* the result of a binding pass: the input value, the error (Nil for none),
\* and "ok" or the way the pass crashed
BindRes(obj, err, st) == [obj |-> obj, err |-> err, status |-> st]

\* v.Field(i).Set(val)
SetField(obj, name, val) == [obj EXCEPT !.f[name] = val]

\* the value a field holds once val is set behind its pointer, if it is one
Stored(ft, val) == IF Kind(ft.type) = "ptr" THEN [k |-> "ptr", v |-> val] ELSE val

\* strings.Split(strings.TrimSpace(enum), ","), and contains
EnumValues(ft) == { TagGet(ft, "enum")[i] : i \in 1..Len(TagGet(ft, "enum")) }

\* the text of the default tag
DefaultText(ft) ==
    IF TagGet(ft, "default") = <<>> THEN "" ELSE TagGet(ft, "default")[1]

\* the part of bind that follows the extraction of the raw values of the
\* field ft of the struct type t: the answer is [res, stop], stop telling
\* that bind returns res as it is
BindValues(t, obj, ft, name, values, ro) ==
    LET field == obj.f[ft.name]
        isNil == Kind(ft.type) = "ptr" /\ field.k = "nilptr"
        vt == Deref(ft.type)
        kind == Kind(vt)
        canSet == ft.exported /\ ~ro
        \* `field.Set(reflect.New(field.Type().Elem()))`
        obj1 == IF isNil THEN SetField(obj, ft.name, [k |-> "ptr", v |-> ZeroOf(vt)])
                ELSE obj
        fail(msg) == [res |-> BindRes(obj1, BindError(name, t, msg), "ok"), stop |-> TRUE]
        crash == [res |-> BindRes(obj, Nil, "panic"), stop |-> TRUE]
    IN  IF isNil /\ ~canSet THEN crash
        ELSE IF Len(values) > 1 /\ kind \in {"slice", "array"}
        THEN fail("multiple values not supported")
        ELSE IF kind = "array" /\ vt.len # Len(values)
        THEN fail("parameter expect other number of values")
        \* `reflect.MakeSlice(field.Type(), len(fieldValues), 0)`: len > cap
        ELSE IF kind = "slice" THEN crash
        ELSE IF kind = "array"
        THEN LET cv == bindStringValue(values[1], vt.elem, TRUE)
             IN  IF cv.err # "" THEN fail(cv.err)
                 ELSE IF ~canSet THEN crash
                 \* `return nil`: bind ends here
                 ELSE [res |-> BindRes(SetField(obj1, ft.name,
                                  Stored(ft, [k |-> "array", elems |-> <<cv.v>>])),
                                  Nil, "ok"),
                       stop |-> TRUE]
        ELSE IF TagGet(ft, "enum") # <<>> /\ values[1] \notin EnumValues(ft)
        THEN fail("parameter has not an acceptable value")
        ELSE LET cv == bindStringValue(values[1], vt, canSet)
             IN  IF cv.err # "" THEN fail(cv.err)
                 ELSE [res |-> BindRes(SetField(obj1, ft.name, Stored(ft, cv.v)),
                                       Nil, "ok"),
                       stop |-> FALSE]

RECURSIVE BindFrom(_, _, _, _, _, _, _)
\* the loop of bind over the fields of the struct type t from field i on;
\* stk holds the struct types whose binding is on the call stack, ro tells
\* that the value was reached through an unexported field
BindFrom(c, t, obj, tag, i, stk, ro) ==
    IF i > NumField(t) THEN BindRes(obj, Nil, "ok")
    ELSE LET ft == Field(t, i)
             field == obj.f[ft.name]
         IN  IF ft.anon
             THEN LET et == Deref(ft.type)
                      isPtr == Kind(ft.type) = "ptr"
                      isNil == isPtr /\ field.k = "nilptr"
                      inner == IF isNil THEN ZeroOf(et)
                               ELSE IF isPtr THEN field.v ELSE field
                  IN  \* field.Set on a value reached through an unexported field
                      IF isNil /\ (~ft.exported \/ ro) THEN BindRes(obj, Nil, "panic")
                      \* t.NumField() on a type that is no struct
                      ELSE IF Kind(et) # "struct" THEN BindRes(obj, Nil, "panic")
                      ELSE IF et \in stk THEN BindRes(obj, Nil, "overflow")
                      ELSE Bind(BindFrom(c, et, inner, tag, 1, stk \cup {et},
                                         ro \/ ~ft.exported),
                                LAMBDA r :
                                IF r.status # "ok" THEN BindRes(obj, Nil, r.status)
                                ELSE IF r.err # Nil
                                THEN BindRes(SetField(obj, ft.name, Stored(ft, r.obj)),
                                             r.err, "ok")
                                ELSE BindFrom(c, t, SetField(obj, ft.name, Stored(ft, r.obj)),
                                              tag, i + 1, stk, ro))
             ELSE IF TagGet(ft, tag) = <<>>
             THEN BindFrom(c, t, obj, tag, i + 1, stk, ro)
             ELSE Bind(extract(c, tag, TagGet(ft, tag)), LAMBDA e :
                  IF e.err # "" THEN BindRes(obj, BindError(e.name, t, e.err), "ok")
                  ELSE LET values == IF TagLookup(ft, "default") /\ Len(e.values) = 0
                                     THEN <<DefaultText(ft)>> ELSE e.values
                       IN  IF Len(values) = 0
                           THEN BindFrom(c, t, obj, tag, i + 1, stk, ro)
                           ELSE Bind(BindValues(t, obj, ft, e.name, values, ro),
                                     LAMBDA b :
                                     IF b.stop THEN b.res
                                     ELSE BindFrom(c, t, b.res.obj, tag, i + 1, stk, ro)))

\* bind: one pass over the input value for one location
bind(c, t, obj, tag) == BindFrom(c, t, obj, tag, 1, {t}, FALSE)

\* DefaultBindingHook: the body is parsed unless it is empty or the method
\* is GET; the error, or "" for nil.  The bodies of the model set no field.
DefaultBindingHook(c) ==
    IF c.body = "none" \/ c.method = "GET" THEN ""
    ELSE IF c.body = "bad" THEN "error parsing request body"
    ELSE ""

\* what the wrapping handler did with a request: the input value, the error
\* handed to handleError (Nil for none), the binding steps that ran, whether
\* the tonic handler was called, and the status code and the payload
\* rendered: the payload of DefaultErrorHook for an error, none for a handler
\* that returns no value
Outcome(input, err, steps, invoked, code, st) ==
    [input |-> input, err |-> err, steps |-> steps, invoked |-> invoked,
     code |-> code, payload |-> IF err # Nil THEN [error |-> err] ELSE Nil,
     status |-> st]

\* http.StatusBadRequest, the status of DefaultErrorHook
StatusBadRequest == 400

\* the locations in the order the wrapping handler binds them
BindOrder == <<"query", "path", "header">>

RECURSIVE BindSteps(_, _, _, _, _, _)
\* the passes of the wrapping handler from location k on, and the call of
\* the tonic handler after the last
BindSteps(c, in, obj, k, steps, status0) ==
    IF k > Len(BindOrder) THEN Outcome(obj, Nil, steps, TRUE, status0, "ok")
    ELSE Bind(bind(c, in, obj, BindOrder[k]), LAMBDA r :
              IF r.status # "ok"
              THEN Outcome(r.obj, Nil, Append(steps, BindOrder[k]), FALSE, 0, r.status)
              ELSE IF r.err # Nil
              THEN Outcome(r.obj, r.err, Append(steps, BindOrder[k]), FALSE,
                           StatusBadRequest, "ok")
              ELSE BindSteps(c, in, r.obj, k + 1, Append(steps, BindOrder[k]), status0))

\* the gin handler that tonic.Handler(h, status0) returns, for a handler h
\* with the input type in that returns no error
Handler(c, in, status0) ==
    IF DefaultBindingHook(c) # ""
    THEN Outcome(ZeroOf(in), [k |-> "error", message |-> DefaultBindingHook(c)],
                 <<"body">>, FALSE, StatusBadRequest, "ok")
    ELSE BindSteps(c, in, ZeroOf(in), 1, <<"body">>, status0)

(***************************************************************************)
(* The state machine                                                       *)
(***************************************************************************)
\* the generator's state as the calls see it
Gen == [paths |-> paths, schemaTypes |-> schemaTypes, components |-> components,
        errors |-> errors, status |-> "ok", why |-> ""]

NoCall == [op |-> "none"]

\* NewSpec
Init ==
    /\ paths = EmptyMap
    /\ schemaTypes = {}
    /\ components = EmptyMap
    /\ errors = <<>>
    /\ tags = <<>>
    /\ status = "running"
    /\ calls = 0
    /\ last = NoCall
    /\ inflight = <<>>

\* what a call leaves behind
Commit(g) ==
    /\ paths' = g.paths
    /\ schemaTypes' = g.schemaTypes
    /\ components' = g.components
    /\ errors' = g.errors
    /\ status' = IF g.status = "ok" THEN "running" ELSE g.status
    /\ calls' = calls + 1
    /\ UNCHANGED <<tags, inflight>>

CanCall == status = "running" /\ calls < MaxCalls

\* one call of AddOperation
DoAddOperation(path, method, id, in, out, info) ==
    /\ CanCall
    /\ Bind(AddOperation(Gen, path, method, "Test", id, in, out, info), LAMBDA r :
            /\ Commit(r.g)
            /\ last' = [op |-> "AddOperation", path |-> path, method |-> method,
                        id |-> id, in |-> in, out |-> out, info |-> info,
                        err |-> r.err, why |-> r.g.why, before |-> Gen])

\* one direct call of newSchemaFromType, as the package's tests make it
DoBuildSchema(t) ==
    /\ CanCall
    /\ Bind(newSchemaFromType(Gen, t), LAMBDA r :
            /\ Commit(r.g)
            /\ last' = [op |-> "BuildSchema", type |-> t, result |-> r.v,
                        why |-> r.g.why, before |-> Gen])

\* AddTag that appends without the search for the name
AddTagAppend(ts, name, desc) == Append(ts, [name |-> name, description |-> desc])

\* AddTag: the description of the tag with the name is overwritten when
\* there is one, a new tag is appended otherwise
AddTag(ts, name, desc) ==
    IF \E i \in 1..Len(ts) : ts[i].name = name
    THEN LET first == CHOOSE i \in 1..Len(ts) :
                          /\ ts[i].name = name
                          /\ \A j \in 1..(i - 1) : ts[j].name # name
         IN  [ts EXCEPT ![first].description = desc]
    ELSE Append(ts, [name |-> name, description |-> desc])

\* one call of AddTag
DoAddTag(name, desc) ==
    /\ CanCall
    /\ tags' = AddTag(tags, name, desc)
    /\ calls' = calls + 1
    /\ last' = [op |-> "AddTag", name |-> name, desc |-> desc, before |-> tags]
    /\ UNCHANGED <<paths, schemaTypes, components, errors, status, inflight>>
\* the status a route is registered with
DefaultStatus == 200

\* one request served by the wrapping handler of a route whose tonic handler
\* takes the input type in
DoHandle(c, in) ==
    /\ CanCall
    /\ Bind(Handler(c, in, DefaultStatus), LAMBDA r :
            /\ status' = IF r.status = "ok" THEN "running" ELSE r.status
            /\ last' = [op |-> "Handle", req |-> c, in |-> in, input |-> r.input,
                        err |-> r.err, steps |-> r.steps, invoked |-> r.invoked,
                        code |-> r.code, payload |-> r.payload])
    /\ calls' = calls + 1
    /\ UNCHANGED <<paths, schemaTypes, components, errors, tags, inflight>>
\* `input := reflect.New(in)` handing out the value of the last request
\* accepted instead of a new one
NewInputReused(fl, in) ==
    IF Len(fl) > 0 /\ fl[Len(fl)].in = in THEN fl[Len(fl)].input ELSE ZeroOf(in)

\* `input := reflect.New(in)`: every call of the gin handler makes its own
\* zero value, whatever the other goroutines hold
NewInput(fl, in) == ZeroOf(in)

\* a goroutine enters the gin handler with the request c; pc is the step it
\* is about to take, k the number of bind passes it has completed
Accept(c, in) ==
    /\ CanCall
    /\ inflight' = Append(inflight,
           [req |-> c, in |-> in, input |-> NewInput(inflight, in), pc |-> "body",
            k |-> 0, err |-> Nil, invoked |-> FALSE, arg |-> Nil, code |-> 0])
    /\ calls' = calls + 1
    /\ UNCHANGED <<paths, schemaTypes, components, errors, tags, status, last>>

\* the goroutine i takes its next step in the gin handler: the body hook, a
\* bind pass, or the call of the tonic handler with its input
Serve(i) ==
    /\ status = "running"
    /\ i \in 1..Len(inflight)
    /\ inflight[i].pc \notin {"done", "error"}
    /\ LET fl == inflight[i]
       IN  IF fl.pc = "body"
           THEN /\ inflight' = [inflight EXCEPT ![i] =
                       IF DefaultBindingHook(fl.req) # ""
                       THEN [fl EXCEPT !.pc = "error", !.code = StatusBadRequest,
                                 !.err = [k |-> "error",
                                          message |-> DefaultBindingHook(fl.req)]]
                       ELSE [fl EXCEPT !.pc = "bind"]]
                /\ UNCHANGED status
           ELSE IF fl.pc = "bind"
           THEN Bind(bind(fl.req, fl.in, fl.input, BindOrder[fl.k + 1]), LAMBDA r :
                     /\ status' = IF r.status = "ok" THEN "running" ELSE r.status
                     /\ inflight' = [inflight EXCEPT ![i] =
                            IF r.status # "ok" THEN [fl EXCEPT !.pc = "error"]
                            ELSE IF r.err # Nil
                            THEN [fl EXCEPT !.input = r.obj, !.err = r.err,
                                      !.k = fl.k + 1,
                                      !.pc = "error", !.code = StatusBadRequest]
                            ELSE [fl EXCEPT !.input = r.obj, !.k = fl.k + 1,
                                      !.pc = IF fl.k + 1 = Len(BindOrder)
                                             THEN "call" ELSE "bind"]])
           ELSE /\ inflight' = [inflight EXCEPT ![i] =
                       [fl EXCEPT !.pc = "done", !.invoked = TRUE,
                                  !.arg = fl.input, !.code = DefaultStatus]]
                /\ UNCHANGED status
    /\ UNCHANGED <<paths, schemaTypes, components, errors, tags, calls, last>>
\* the operation id a route gets: the name of its handler, one per route
IdOf(n) == <<"first", "second", "third", "fourth">>[n]

DefaultInfo == Info("ABC", 201, "", <<>>, <<>>)

(***************************************************************************)
(* Spec: routes whose input structs exercise parameters and request bodies *)
(***************************************************************************)
OpsPaths == { <<Lit("t"), Colon("a")>>, <<Lit("t"), Brace("a")>> }
OpsMethods == {"GET", "POST"}
OpsIn == {NoType, Ptr(Struct("In1")), Struct("Params"), Ptr(Struct("Outer")),
          Struct("Conf"), Ptr(Struct("ConfOuter")), Struct("ConfHidden"),
          Ptr(Struct("Dup"))}

OpsCalls ==
    [path : OpsPaths, method : OpsMethods, in : OpsIn, out : {NoType}]
    \cup [path : OpsPaths, method : OpsMethods,
          in : {NoType, Ptr(Struct("In1"))}, out : {Struct("Out")}]

AddOp ==
    \E c \in OpsCalls :
        DoAddOperation(c.path, c.method, IdOf(calls + 1), c.in, c.out, DefaultInfo)

Next == AddOp

Spec == Init /\ [][Next]_vars

(***************************************************************************)
(* SpecBody: the same, over every method class                             *)
(***************************************************************************)
BodyMethods == {"GET", "HEAD", "DELETE", "POST", "PUT"}
BodyIn == {Struct("Params"), Ptr(Struct("Outer")), Ptr(Struct("Dup")),
           Struct("HasFn")}

AddOpBody ==
    \E m \in BodyMethods, in \in BodyIn :
        DoAddOperation(<<Lit("t"), Colon("a")>>, m, IdOf(calls + 1), in, NoType,
                       DefaultInfo)

NextBody == AddOpBody

SpecBody == Init /\ [][NextBody]_vars

(***************************************************************************)
(* SpecTypes: schema builds and routes over recursive, embedded, unnamed   *)
(* and unsupported types                                                   *)
(***************************************************************************)
BuildTypes ==
    {Struct("Out"), Ptr(Struct("X")), Struct("Node"), Struct("Tree"),
     Ptr(Struct("SelfEmb")), Struct("EmbA"), Struct("EmbB"), Struct("CycA"),
     Struct("RA"), Struct("HasFn"), Struct("Anon"), Struct("AnonDur"), Struct("Wrap"),
     TFunc, SliceOf(TFunc), ArrayOf(2, TIface), MapOf(TString, TFunc),
     NamedSlice("L"), SliceOf(Ptr(Struct("Tree"))), MapOf(TInt, Struct("Out"))}

TypesIn == {Ptr(Struct("SelfEmb")), Struct("X"), Struct("EmbA"), Struct("CycA"),
            Struct("RA"), Struct("Anon"), Struct("Tree")}

Build == \E t \in BuildTypes : DoBuildSchema(t)

AddOpTypes ==
    \E m \in {"GET", "POST"}, in \in TypesIn, out \in {NoType, Struct("Tree")} :
        DoAddOperation(<<Lit("t")>>, m, IdOf(calls + 1), in, out, DefaultInfo)

NextTypes == Build \/ AddOpTypes

SpecTypes == Init /\ [][NextTypes]_vars

(***************************************************************************)
(* SpecInfo: routes registered with and without operation info             *)
(***************************************************************************)
InfoIn == {NoType, TString, Ptr(TString), SliceOf(TString), Struct("In1"),
           Ptr(Struct("In1")), Ptr(Struct("Conf"))}

AddOpInfo ==
    \E p \in {<<Lit("")>>, <<Lit("t"), Colon("a")>>}, m \in {"GET", "POST"},
       in \in InfoIn, info \in {Nil, DefaultInfo} :
        DoAddOperation(p, m, IdOf(calls + 1), in, NoType, info)

NextInfo == AddOpInfo

SpecInfo == Init /\ [][NextInfo]_vars

(***************************************************************************)
(* SpecFields: schema builds and routes over structs whose fields carry    *)
(* maps, enums, deprecation marks and skipped names                        *)
(***************************************************************************)
FieldTypes == {Struct("MapKey"), Ptr(Struct("MapKey")), Struct("Out"),
               Struct("Enums"), Struct("Depr"), Struct("Skip")}

BuildField == \E t \in FieldTypes : DoBuildSchema(t)

AddOpFields ==
    \E m \in {"GET", "POST"}, in \in FieldTypes :
        DoAddOperation(<<Lit("t")>>, m, IdOf(calls + 1), in, NoType, DefaultInfo)

NextFields == BuildField \/ AddOpFields

SpecFields == Init /\ [][NextFields]_vars

(***************************************************************************)
(* SpecResp: routes with and without an output type, whose operation info  *)
(* declares additional responses                                           *)
(***************************************************************************)
RespCodes == {"404", "777", "two-hundred", "default"}
RespDescs == {"", "gone"}

\* the additional responses of one operation info: none, one, or two under
\* the same code
RespLists ==
    {<<>>, <<Response("404", "", NoType), Response("404", "gone", TString)>>}
        \cup { <<Response(c, d, NoType)>> : c \in RespCodes, d \in RespDescs }

AddOpResp ==
    \E code \in {201, 204}, out \in {NoType, Struct("Out")}, rs \in RespLists :
        DoAddOperation(<<Lit("t")>>, "PUT", IdOf(calls + 1), NoType, out,
                       Info("ABC", code, "", <<>>, rs))

NextResp == AddOpResp

SpecResp == Init /\ [][NextResp]_vars

(***************************************************************************)
(* SpecTags: the tags of the specification                                 *)
(***************************************************************************)
TagNames == {"", "Test", "A", "B"}
TagDescs == {"", "Test routes", "Routes test"}

AddTags == \E name \in TagNames, desc \in TagDescs : DoAddTag(name, desc)

NextTags == AddTags

SpecTags == Init /\ [][NextTags]_vars

(***************************************************************************)
(* SpecBind: requests served by wrapped handlers                           *)
(***************************************************************************)
BindIn == {Struct("Req"), Struct("Def"), Struct("Multi")}

\* the method and the body of a request
Bodies == { <<"GET", "none">>, <<"POST", "{}">>, <<"POST", "bad">> }

Queries ==
    { EmptyMap,
      Put(EmptyMap, "q", <<"5">>),
      Put(EmptyMap, "q", <<"1", "2">>),
      Put(EmptyMap, "q", <<"abc">>),
      Put(EmptyMap, "n", <<"1">>),
      Put(EmptyMap, "n", <<"1", "2">>),
      Put(Put(EmptyMap, "a", <<"1", "2">>), "z", <<"x">>) }

Params == { EmptyMap, Put(EmptyMap, "p", "3") }

Headers == { EmptyMap, Put(EmptyMap, "X-C", "2") }

Requests ==
    { Request(b[1], b[2], q, p, h) :
          b \in Bodies, q \in Queries, p \in Params, h \in Headers }

Handle == \E c \in Requests, in \in BindIn : DoHandle(c, in)

NextBind == Handle

SpecBind == Init /\ [][NextBind]_vars

(***************************************************************************)
(* SpecConc: requests served at once by one wrapped handler, one goroutine *)
(* per request, their steps interleaved                                    *)
(***************************************************************************)
ConcIn == {Struct("Req"), Struct("Def")}

ConcRequests ==
    { Request("GET", "none", Put(EmptyMap, "q", <<"5">>), Put(EmptyMap, "p", "3"),
              Put(EmptyMap, "X-C", "2")),
      Request("GET", "none", Put(EmptyMap, "q", <<"1">>), Put(EmptyMap, "p", "abc"),
              EmptyMap),
      Request("POST", "bad", EmptyMap, EmptyMap, EmptyMap) }

Accepts == \E c \in ConcRequests, in \in ConcIn : Accept(c, in)

Serves == \E i \in 1..MaxCalls : Serve(i)

NextConc == Accepts \/ Serves

SpecConc == Init /\ [][NextConc]_vars

(***************************************************************************)
(* SpecDur: requests with duration parameters                              *)
(***************************************************************************)
\* the texts a request gives a duration: with a unit, without, no number
DurTexts == {"0", "1s", "5", "abc", ""}

\* the values of one query parameter: absent, or one of the texts
DurValues == {<<>>} \cup { <<s>> : s \in DurTexts }

\* the query string of a request, a parameter without values being absent
QueryOf(d, e, f) ==
    LET all == [n \in {"d", "e", "f"} |->
                   IF n = "d" THEN d ELSE IF n = "e" THEN e ELSE f]
    IN  [n \in { x \in {"d", "e", "f"} : all[x] # <<>> } |-> all[n]]

HandleDur ==
    \E d \in DurValues, e \in DurValues, f \in {<<>>, <<"5">>, <<"abc">>} :
        DoHandle(Request("GET", "none", QueryOf(d, e, f), EmptyMap, EmptyMap),
                 Struct("Dur"))

NextDur == HandleDur

SpecDur == Init /\ [][NextDur]_vars

(***************************************************************************)
(* SpecPass: requests to handlers whose input has a slice or an array      *)
(* parameter before other parameters, or embeds a pointer to its own type  *)
(***************************************************************************)
PassIn == {Struct("After"), Struct("Multi"), Struct("SelfEmb")}

\* the query string with the values a, n and z of the parameters of these
\* names, a parameter without values being absent
PassQuery(a, n, z) ==
    LET all == [x \in {"a", "n", "z"} |->
                   IF x = "a" THEN a ELSE IF x = "n" THEN n ELSE z]
    IN  [x \in { y \in {"a", "n", "z"} : all[y] # <<>> } |-> all[x]]

PassQueries ==
    { PassQuery(a, n, z) :
          a \in {<<>>, <<"1">>, <<"abc">>, <<"1", "2">>},
          n \in {<<>>, <<"1">>},
          z \in {<<>>, <<"x">>} }

PassRequests ==
    { Request("GET", "none", q, p, EmptyMap) : q \in PassQueries, p \in Params }

HandlePass == \E c \in PassRequests, in \in PassIn : DoHandle(c, in)

NextPass == HandlePass

SpecPass == Init /\ [][NextPass]_vars

(***************************************************************************)
(* Properties                                                              *)
(***************************************************************************)
\* the operation stored for a path and a method, Nil when there is none
StoredOp(g, path, method) ==
    IF Has(g.paths, rewritePath(path)) THEN g.paths[rewritePath(path)][method]
    ELSE Nil

\* the last call was AddOperation, and it returned (with or without an error)
Added == last.op = "AddOperation"

Built == last.op = "BuildSchema"

\* the generation errors the last call recorded
NewErrors == SubSeq(errors, Len(last.before.errors) + 1, Len(errors))

\* C1: operations are write-once.  After AddOperation has succeeded for a
\* path and a method, a second AddOperation for the same rewritten path and
\* the same method returns an error, and the operation stored for that path
\* and method is still the first one.
C1_WriteOnce ==
    (Added /\ StoredOp(last.before, last.path, last.method) # Nil)
        => /\ last.err # ""
           /\ StoredOp(Gen, last.path, last.method)
                  = StoredOp(last.before, last.path, last.method)

\* C2: the generator never crashes.  Every AddOperation and every schema
\* build returns normally, whatever the type graph: a struct with a field of
\* its own type, an unnamed struct, an unsupported kind.
C2_NeverCrashes == status = "running"

\* the named struct a type is or points to, NoType when it is neither
NamedStruct(t) ==
    LET e == IF t.kind = "ptr" THEN t.elem ELSE t
    IN  IF e.kind = "struct" /\ e # TTime /\ Len(TypeString(e)) > 1 THEN e
        ELSE NoType

\* C3: a named struct type has exactly one entry in the components registry.
\* Every named struct the generator has met is registered under its name,
\* every build of it returns the reference to that name, and building it
\* again adds no entry to the registry.
C3_OneEntryPerType ==
    /\ \A t \in schemaTypes : Has(components, typeName(t).name)
    /\ (Built /\ NamedStruct(last.type) # NoType)
           => LET t == NamedStruct(last.type)
              IN  /\ last.result = RefTo(typeName(t).name)
                  /\ Has(components, typeName(t).name)
                  /\ t \in last.before.schemaTypes
                         => DOMAIN components = DOMAIN last.before.components

\* the type the last call worked on: the input of AddOperation, the argument
\* of a schema build
Target == IF Added THEN Deref(last.in) ELSE IF Built THEN Deref(last.type) ELSE NoType

\* the struct types a struct embeds through its exported fields
EmbeddedOf(t) ==
    { Deref(Field(t, i).type) : i \in { j \in 1..NumField(t) :
          /\ Field(t, j).exported /\ Field(t, j).anon
          /\ Deref(Field(t, j).type).kind = "struct" } }

\* the names of the fields by which t embeds a pointer to its own type
SelfEmbedded(t) ==
    { Field(t, i).name : i \in { j \in 1..NumField(t) :
          Field(t, j).anon /\ Field(t, j).type = Ptr(t) } }

EmbedsSelf(t) == t.kind = "struct" /\ SelfEmbedded(t) # {}

\* what the fields of a self-embedding type of the model give once the
\* embedded pointer to itself is left out: schema properties, parameters and
\* request body properties
OwnProperties(t) ==
    CASE t.id = "SelfEmb" -> {"A", "B"}
      [] t.id = "EmbB" -> {"Bar"}
      [] t.id = "RA" -> {"Foo", "Bar", "Baz"}
      [] OTHER -> {"A", "D", "F"}

OwnParameters(t) ==
    CASE t.id = "SelfEmb" -> {"a"} [] t.id = "EmbB" -> {"bar"}
      [] t.id = "RA" -> {"baz"} [] OTHER -> {}

OwnBody(t) ==
    CASE t.id = "SelfEmb" -> {"B"} [] t.id = "EmbB" -> {}
      [] t.id = "RA" -> {"Foo", "Bar"} [] OTHER -> {"A", "D", "F"}

NoBodyMethods == {"GET", "HEAD", "DELETE"}

\* the property names of a request body, none when there is no body
BodyNames(op) ==
    IF op.requestBody = Nil THEN {} ELSE DOMAIN op.requestBody.schema.properties

ParamNames(op) == { op.parameters[i].name : i \in 1..Len(op.parameters) }

\* C4: a struct that embeds a pointer to its own type.  Schema generation
\* and parameter extraction end without unbounded recursion, the embedded
\* field gives no property and no parameter, and the type is defined at most
\* once: a second build returns the same reference and leaves the registry
\* as it was.
C4_SelfEmbedding ==
    (last.op # "none" /\ EmbedsSelf(Target))
        => /\ status # "overflow"
           /\ (Built /\ status = "running")
                  => LET name == typeName(Target).name
                         props == DOMAIN components[name].schema.properties
                     IN  /\ last.result = RefTo(name)
                         /\ props \cap SelfEmbedded(Target) = {}
                         /\ props = OwnProperties(Target)
                         /\ Target \in last.before.schemaTypes
                                => components = last.before.components
           /\ (Added /\ status = "running")
                  => LET op == StoredOp(Gen, last.path, last.method)
                     IN  /\ last.err = ""
                         /\ ParamNames(op) = OwnParameters(Target)
                         /\ BodyNames(op) =
                                IF last.method \in NoBodyMethods THEN {}
                                ELSE OwnBody(Target)
                         /\ \A i \in 1..Len(NewErrors) :
                                NewErrors[i].msg = "skipped recursive embeding"

\* C4 witness: SelfEmb, which embeds *SelfEmb, has been built and registered
C4_Witness ==
    /\ Built /\ last.type = Ptr(Struct("SelfEmb")) /\ status = "running"
    /\ DOMAIN components["OpenapiSelfEmb"].schema.properties = {"A", "B"}

RECURSIVE EmbReach(_, _)
\* the struct types reached from frontier by one or more embeddings
EmbReach(frontier, seen) ==
    LET next == UNION { EmbeddedOf(u) : u \in frontier } \ seen
    IN  IF next = {} THEN seen ELSE EmbReach(next, seen \cup next)

EmbBelow(t) == EmbReach({t}, {})

\* the embedded struct fields of t form a cycle at some depth
HasEmbedCycle(t) ==
    t.kind = "struct" /\ \E u \in EmbBelow(t) \cup {t} : u \in EmbBelow(u)

\* C5: recursive embedding is skipped at any level.  For a struct whose
\* embedded structs form a cycle at any depth, also one that does not pass
\* through the type being expanded, schema generation and parameter
\* extraction end: the recursion never runs away.
C5_EmbeddingCycleEnds ==
    (last.op # "none" /\ HasEmbedCycle(Target)) => status # "overflow"

\* the location tags a field carries
LocationTags(f) == { l \in {"path", "query", "header"} : TagLookup(f, l) }

RECURSIVE HasConflict(_, _)
\* some exported field of t, or of a struct t embeds through exported fields
\* at any depth (the topmost type apart), carries more than one location tag
HasConflict(t, top) ==
    \E i \in 1..NumField(t) :
        LET f == Field(t, i)
        IN  /\ f.exported
            /\ IF f.anon /\ Deref(f.type).kind = "struct"
               THEN Deref(f.type) # top /\ HasConflict(Deref(f.type), top)
               ELSE Cardinality(LocationTags(f)) > 1

\* the last call registered a route whose input is a struct
AddedStruct == Added /\ Target.kind = "struct"

\* the last call left the operation of its path and method as it was
SlotUntouched ==
    StoredOp(Gen, last.path, last.method)
        = StoredOp(last.before, last.path, last.method)

C7_NotAStruct ==
    (Added /\ last.in # NoType /\ Target.kind # "struct")
        => /\ status = "running"
           /\ last.err # ""
           /\ SlotUntouched

\* C8: GET, HEAD and DELETE have no request body.  Whatever the input
\* struct, the operation has no request body: the fields without a location
\* tag are dropped, which records no generation error and returns no error.
C8_NoBodyMethods ==
    (Added /\ last.method \in NoBodyMethods)
        => /\ status = "running"
           /\ last.err = ""
           /\ StoredOp(Gen, last.path, last.method) # Nil
           /\ StoredOp(Gen, last.path, last.method).requestBody = Nil
           /\ \A i \in 1..Len(NewErrors) : NewErrors[i].msg = "duplicate parameter"

\* C8 witness: a DELETE route whose input has fields of unsupported types
\* and no location tag
C8_Witness ==
    /\ Added /\ last.method = "DELETE" /\ last.in = Struct("HasFn")
    /\ ParamNames(StoredOp(Gen, last.path, last.method)) = {"n"}
    /\ NewErrors = <<>>

\* the rank of a parameter location: path, then query, then header
LocationRank(loc) == CASE loc = "path" -> 1 [] loc = "query" -> 2 [] OTHER -> 3

\* parameters in ascending order of location, then of name
Ordered(params) ==
    \A i, j \in 1..Len(params) :
        i < j => \/ LocationRank(params[i].in) < LocationRank(params[j].in)
                 \/ /\ params[i].in = params[j].in
                    /\ NameRank(params[i].name) <= NameRank(params[j].name)

\* C9: the parameters are sorted.  After AddOperation the parameter list of
\* the operation is ordered by location, path before query before header,
\* and by name ascending within a location, whatever the declaration order
\* of the fields and the nesting of embedded structs.
C9_ParametersSorted ==
    \A p \in DOMAIN paths : \A m \in Methods :
        paths[p][m] # Nil => Ordered(paths[p][m].parameters)

\* C9 witness: Outer declares query r, embeds query z and header a, and
\* declares path a last
C9_Witness ==
    /\ Added /\ last.in = Ptr(Struct("Outer")) /\ last.err = ""
    /\ LET ps == StoredOp(Gen, last.path, last.method).parameters
       IN  /\ Len(ps) = 4
           /\ <<ps[1].in, ps[2].name, ps[3].name, ps[4].in>>
                  = <<"path", "r", "z", "header">>

RECURSIVE Declared(_, _, _, _)
\* how many fields of t from field i on, embedded structs flattened, declare
\* a parameter (asParam) or a request body field
Declared(t, top, i, asParam) ==
    IF i > NumField(t) THEN 0
    ELSE LET f == Field(t, i)
             here == IF ~f.exported THEN 0
                     ELSE IF f.anon /\ Deref(f.type).kind = "struct"
                     THEN IF Deref(f.type) = top THEN 0
                          ELSE Declared(Deref(f.type), top, 1, asParam)
                     ELSE IF asParam
                     THEN IF LocationTags(f) # {} THEN 1 ELSE 0
                     ELSE IF LocationTags(f) = {} /\ TagGet(f, "binding") # <<"-">>
                     THEN 1 ELSE 0
         IN  here + Declared(t, top, i + 1, asParam)

\* how many of the errors the last call recorded carry the message
CountNew(msg) == Cardinality({ i \in 1..Len(NewErrors) : NewErrors[i].msg = msg })

\* the parameter of op in a location, when there is one
ParamIn(op, loc) ==
    op.parameters[CHOOSE i \in 1..Len(op.parameters) : op.parameters[i].in = loc]

\* C10: duplicates are not fatal.  When the flattened input struct declares
\* two parameters with one name in one location, or two body fields with
\* one serialization name, AddOperation succeeds, records one generation
\* error per duplicate and keeps the first occurrence in declaration order
\* (schema, description, required flag); one name in two locations is no
\* duplicate.
C10_Duplicates ==
    (AddedStruct /\ ~HasConflict(Target, Target))
        => /\ status = "running"
           /\ last.err = ""
           /\ LET op == StoredOp(Gen, last.path, last.method)
                  ps == op.parameters
                  body == last.method \notin NoBodyMethods
              IN  /\ \A i, j \in 1..Len(ps) :
                         (ps[i].name = ps[j].name /\ ps[i].in = ps[j].in) => i = j
                  /\ CountNew("duplicate parameter")
                         = Declared(Target, Target, 1, TRUE) - Len(ps)
                  /\ CountNew("duplicate request body parameter")
                         = IF body
                           THEN Declared(Target, Target, 1, FALSE)
                                    - Cardinality(BodyNames(op))
                           ELSE 0
                  /\ Target = Struct("Dup")
                         => /\ { <<ps[i].name, ps[i].in>> : i \in 1..Len(ps) }
                                    = { <<"a", "path">>, <<"a", "query">>,
                                        <<"a", "header">> }
                            /\ ParamIn(op, "path").description = "first"
                            /\ ParamIn(op, "path").schema.schema.type = "integer"
                            /\ ParamIn(op, "query").required
                            /\ ParamIn(op, "query").schema.schema.type = "boolean"
                            /\ CountNew("duplicate parameter") = 2
                            /\ body => /\ BodyNames(op) = {"f", "F"}
                                       /\ op.requestBody.schema.required = <<"f">>
                                       /\ op.requestBody.schema.properties["f"]
                                              .schema.type = "string"
                                       /\ CountNew("duplicate request body parameter") = 1

\* C10 witness: Dup under POST, with a duplicate path parameter, a duplicate
\* query parameter across an embedded struct and a duplicate body field
C10_Witness ==
    /\ Added /\ last.in = Ptr(Struct("Dup")) /\ last.method = "POST"
    /\ last.err = "" /\ Len(NewErrors) = 3
    /\ Len(StoredOp(Gen, last.path, last.method).parameters) = 3

\* the fields of struct t that are maps keyed by something else than a string
BadKeyFields(t) ==
    { i \in 1..NumField(t) :
          /\ Field(t, i).exported /\ ~Field(t, i).anon
          /\ Kind(Deref(Field(t, i).type)) = "map"
          /\ Kind(Deref(Field(t, i).type).key) # "string" }

\* the fields of struct t declared after a map keyed by a non-string
AfterBadKey(t) ==
    { i \in 1..NumField(t) : \E j \in BadKeyFields(t) : j < i }

\* the object schema the last call generated for its struct: the registered
\* component after a build, the request body after a route with a body
Generated ==
    IF Built THEN components[typeName(Target).name].schema
    ELSE StoredOp(Gen, last.path, last.method).requestBody.schema

\* the last call generated an object schema from the fields of its struct
\* (a build of a type that is already registered returns its reference)
GeneratedFields ==
    /\ status = "running" /\ last.op # "none" /\ Kind(Target) = "struct"
    /\ Built => Target \notin last.before.schemaTypes
    /\ Added => /\ last.err = "" /\ last.method \notin NoBodyMethods
                /\ StoredOp(last.before, last.path, last.method) = Nil

SliceEnumFields(t) ==
    { i \in 1..NumField(t) :
          /\ Field(t, i).exported /\ ~Field(t, i).anon
          /\ Kind(Deref(Field(t, i).type)) = "slice"
          /\ Kind(Elem(Deref(Field(t, i).type)))
                 \in {"string", "int", "int8", "int64", "float32", "bool"}
          /\ TagGet(Field(t, i), "enum") # <<>> }

\* the values of an enum tag converted to type t, in tag order
Converted(vals, t) == [ i \in 1..Len(vals) |-> stringToType(vals[i], t).v ]

Convertible(vals, t) == \A i \in 1..Len(vals) : ~stringToType(vals[i], t).err

\* C12: for a field that is a slice of a primitive type, also behind a
\* pointer, tagged with an enum list of convertible values, the values
\* converted to the element type are, in tag order, the enum of the items
\* sub-schema; the enum of the array schema itself stays empty and no
\* generation error is recorded.
C12_SliceEnum ==
    (GeneratedFields /\ SliceEnumFields(Target) # {})
        => \A i \in SliceEnumFields(Target) :
               LET f == Field(Target, i)
                   el == Elem(Deref(f.type))
                   vals == TagGet(f, "enum")
               IN  Convertible(vals, el)
                       => /\ f.name \in DOMAIN Generated.properties
                          /\ Generated.properties[f.name].schema.items.schema.enum
                                 = Converted(vals, el)
                          /\ Generated.properties[f.name].schema.enum = <<>>
                          /\ CountNew("enum value cannot be converted") = 0

\* the true literals of a deprecated tag
TrueLiterals == {"1", "t", "T", "TRUE", "true", "True"}

\* the field's deprecated tag holds a true literal
Marked(f) ==
    /\ TagGet(f, "deprecated") # <<>>
    /\ Len(TagGet(f, "deprecated")) = 1
    /\ TagGet(f, "deprecated")[1] \in TrueLiterals

\* the exported, non-embedded fields of struct t
PlainFields(t) ==
    { i \in 1..NumField(t) : Field(t, i).exported /\ ~Field(t, i).anon }

\* C13: a schema or a parameter generated from a field is marked deprecated
\* exactly when the deprecated tag of the field is a true literal (1, t, T,
\* TRUE, true, True); a false literal, an invalid value and an absent tag
\* give deprecated = false.
C13_Deprecated ==
    /\ GeneratedFields
           => \A i \in PlainFields(Target) :
                  LET f == Field(Target, i)
                  IN  (/\ Built \/ LocationTags(f) = {}
                       /\ f.name \in DOMAIN Generated.properties
                       /\ Generated.properties[f.name].k = "schema")
                          => Generated.properties[f.name].schema.deprecated
                                 = Marked(f)
    /\ (Added /\ status = "running" /\ last.err = "" /\ Kind(Target) = "struct")
           => \A i \in PlainFields(Target) :
                  LET f == Field(Target, i)
                      ps == StoredOp(Gen, last.path, last.method).parameters
                  IN  \A l \in LocationTags(f), k \in 1..Len(ps) :
                          (ps[k].in = l /\ ps[k].name = ParseTagKey(TagGet(f, l)))
                              => ps[k].deprecated = Marked(f)

\* the fields of struct t whose serialization name is the skip sentinel
SkipFields(t) ==
    { i \in PlainFields(t) : fieldNameFromTag(Field(t, i), MediaTag) = "" }

\* C14: a field whose serialization name is "-" is left out of the object
\* schema and of the request body, and it is the only one: every other
\* exported field, also one declared after it, is a property, and there is
\* no property with an empty name.
C14_SkipSentinel ==
    (GeneratedFields /\ SkipFields(Target) # {})
        => /\ "" \notin DOMAIN Generated.properties
           /\ \A i \in PlainFields(Target) :
                  LET f == Field(Target, i)
                      fname == fieldNameFromTag(f, MediaTag)
                  IN  IF i \in SkipFields(Target)
                      THEN f.name \notin DOMAIN Generated.properties
                      ELSE (Built \/ LocationTags(f) = {})
                               => fname \in DOMAIN Generated.properties

\* the last call added its operation: it returned without an error
AddedOp == Added /\ status = "running" /\ last.err = ""

\* the key of the default response of the last call
DefaultCode == Itoa(last.info.statusCode)

\* C15: every operation added by AddOperation has a response keyed by the
\* declared default status code, also when there is no output type; in that
\* case the response has no content.
C15_DefaultResponse ==
    AddedOp
        => LET op == StoredOp(Gen, last.path, last.method)
           IN  /\ Has(op.responses, DefaultCode)
               /\ last.out = NoType
                      => op.responses[DefaultCode].content = EmptyMap

\* the last call declared one additional response, without a description,
\* under a code that is not "default" and is not the default response's
OneBareResponse ==
    /\ Added /\ status = "running" /\ Len(last.info.responses) = 1
    /\ last.info.responses[1].description = ""
    /\ last.info.responses[1].code # "default"
    /\ last.out # NoType => last.info.responses[1].code # DefaultCode

\* the code maps to a canonical status text
HasStatusText(code) == ~Atoi(code).err /\ StatusText(Atoi(code).n) # ""

\* C16: a response added without a description under a code other than
\* "default" gets the canonical status text of the code as its description;
\* a code without a status text, be it no integer ("two-hundred") or an
\* unknown integer ("777"), makes the addition fail with an error, and no
\* response is added.
C16_StatusText ==
    OneBareResponse
        => LET code == last.info.responses[1].code
               op == StoredOp(Gen, last.path, last.method)
           IN  IF HasStatusText(code)
               THEN /\ last.err = ""
                    /\ Has(op.responses, code)
                    /\ op.responses[code].description = StatusText(Atoi(code).n)
               ELSE /\ last.err # ""
                    /\ op = StoredOp(last.before, last.path, last.method)

\* the positions of the tags named name in the list ts
TagsNamed(ts, name) == { i \in 1..Len(ts) : ts[i].name = name }

Handled == last.op = "Handle" /\ status = "running"

\* the body hook let the last request through
BodyBound == Handled /\ DefaultBindingHook(last.req) = ""

\* the request holds no value for the parameter name in a location
Absent(c, loc, name) ==
    IF loc = "query" THEN QueryValues(c, name) = <<>>
    ELSE IF loc = "path" THEN Param(c, name) = ""
    ELSE GetHeader(c, name) = ""

\* the fields of struct t that are parameters of a location
ParamFields(t, loc) ==
    { i \in PlainFields(t) : TagGet(Field(t, i), loc) # <<>> }

\* the names of the required parameters of struct t that a request lacks
MissingRequired(t, c) ==
    UNION { { ParseTagKey(TagGet(Field(t, i), loc)) :
                  i \in { j \in ParamFields(t, loc) :
                            /\ ParseTagRequired(TagGet(Field(t, j), loc))
                            /\ Absent(c, loc, ParseTagKey(TagGet(Field(t, j), loc))) } } :
            loc \in {"query", "path", "header"} }

\* the messages of the extractors for an absent required parameter
MissingMessages ==
    {"missing query parameter", "missing path parameter", "missing header parameter"}

\* C18: when a required parameter is absent from the request, binding fails
\* with a binding error that identifies it: the field of the error is the
\* declared name of the parameter, not the empty string, and its type is the
\* type of the input structure.
C18_RequiredNamed ==
    (BodyBound /\ MissingRequired(last.in, last.req) # {})
        => /\ last.err # Nil /\ last.err.k = "BindError"
           /\ ~last.invoked
           /\ last.err.message \in MissingMessages
                  => /\ last.err.field # ""
                     /\ last.err.field \in MissingRequired(last.in, last.req)
                     /\ last.err.typ = last.in

\* the request c with the text supplied as the value of a parameter
Supply(c, loc, name, text) ==
    IF loc = "query" THEN [c EXCEPT !.query = Put(@, name, <<text>>)]
    ELSE IF loc = "path" THEN [c EXCEPT !.path = Put(@, name, text)]
    ELSE [c EXCEPT !.header = Put(@, name, text)]

\* the last request was served as the request c would have been
ServedAs(c) ==
    LET o == Handler(c, last.in, DefaultStatus)
    IN  /\ o.status = "ok"
        /\ o.input = last.input
        /\ o.err = last.err
        /\ o.invoked = last.invoked

\* C19: for a parameter field with a default tag, when the request holds no
\* value in the location of the field, be it path, query or header, the
\* binder binds the text of the default tag converted to the type of the
\* field, exactly as if the request had supplied that text.
C19_DefaultBound ==
    BodyBound
        => \A loc \in {"query", "path", "header"} :
               \A i \in ParamFields(last.in, loc) :
                   LET ft == Field(last.in, i)
                       name == ParseTagKey(TagGet(ft, loc))
                   IN  (TagLookup(ft, "default") /\ Absent(last.req, loc, name))
                           => ServedAs(Supply(last.req, loc, name, DefaultText(ft)))

\* the raw values converted one by one to the element type of a collection
ConvertedElems(vals, vt) ==
    [ j \in 1..Len(vals) |-> bindStringValue(vals[j], vt.elem, TRUE).v ]

\* every raw value converts to the element type of a collection
ElemsConvert(vals, vt) ==
    \A j \in 1..Len(vals) : bindStringValue(vals[j], vt.elem, TRUE).err = ""

\* C20: when several raw values are extracted for one parameter, binding
\* fails with a binding error if the field is no slice and no array; if it is
\* a slice, or an array as long as the number of values, binding succeeds
\* and element i of the bound field is the conversion of raw value i.
C20_SeveralValues ==
    (last.op = "Handle" /\ DefaultBindingHook(last.req) = ""
         /\ MissingRequired(last.in, last.req) = {})
        => \A i \in ParamFields(last.in, "query") :
               LET ft == Field(last.in, i)
                   vt == Deref(ft.type)
                   vals == QueryValues(last.req, ParseTagKey(TagGet(ft, "query")))
               IN  Len(vals) > 1
                       => IF Kind(vt) \notin {"slice", "array"}
                          THEN /\ status = "running" /\ ~last.invoked
                               /\ last.err # Nil /\ last.err.k = "BindError"
                          ELSE (/\ Kind(vt) = "array" => vt.len = Len(vals)
                                /\ ElemsConvert(vals, vt)
                                /\ DOMAIN last.req.query
                                       = {ParseTagKey(TagGet(ft, "query"))})
                                   => /\ status = "running" /\ last.err = Nil
                                      /\ last.input.f[ft.name]
                                             = Stored(ft, [k |-> Kind(vt),
                                                           elems |-> ConvertedElems(vals, vt)])

RECURSIVE PassesDone(_, _, _)
\* the input value of a request served alone, after its first k bind passes
PassesDone(c, in, k) ==
    IF k = 0 THEN ZeroOf(in)
    ELSE bind(c, in, PassesDone(c, in, k - 1), BindOrder[k]).obj

\* C21: requests served at once by one wrapped handler do not share their
\* input structures.  Under every interleaving the input of a request holds,
\* at every step, what its own request alone binds; the tonic handler gets
\* that input, and a refused request gets the error of its own request.
C21_OwnInput ==
    \A i \in 1..Len(inflight) :
        LET fl == inflight[i]
            alone == Handler(fl.req, fl.in, DefaultStatus)
        IN  /\ fl.input = PassesDone(fl.req, fl.in, fl.k)
            /\ fl.pc = "done"
                   => /\ alone.invoked /\ fl.invoked
                      /\ fl.arg = alone.input
            /\ (fl.pc = "error" /\ status = "running")
                   => /\ ~alone.invoked /\ ~fl.invoked
                      /\ fl.err = alone.err

\* C21 witness: two requests for the same input type are in flight, the
\* second was accepted later and has reached the tonic handler while the
\* first is between two bind passes, and they hold different inputs
C21_Witness ==
    /\ Len(inflight) = 2
    /\ inflight[1].in = inflight[2].in
    /\ inflight[1].pc = "bind" /\ inflight[1].k = 1
    /\ inflight[1].input # ZeroOf(inflight[1].in)
    /\ inflight[2].pc = "done"
    /\ inflight[2].arg # ZeroOf(inflight[2].in)
    /\ inflight[2].arg.f["Q"] # inflight[1].input.f["Q"]

\* the value a bound field holds, behind its pointer if it is one
Held(v) == IF v.k = "ptr" THEN v.v ELSE v

\* the duration parameters of the query of struct t
DurationFields(t) ==
    { i \in ParamFields(t, "query") : Deref(Field(t, i).type) = TDuration }

\* C22: the value converter of the generator and the binder accept the same
\* texts for a duration.  Every text the converter accepts for a duration
\* field is accepted by the binder for a duration parameter, and is bound to
\* the same duration.
C22_SameDurations ==
    Handled
        => \A i \in DurationFields(last.in) :
               LET ft == Field(last.in, i)
                   name == ParseTagKey(TagGet(ft, "query"))
                   vals == QueryValues(last.req, name)
               IN  (Len(vals) = 1 /\ ~stringToTypeTypesGo(vals[1], TDuration).err)
                       => /\ ~(last.err # Nil /\ last.err.field = name)
                          /\ last.err = Nil
                                 => Held(last.input.f[ft.name])
                                        = stringToTypeTypesGo(vals[1], TDuration).v

\* the struct types of the model that are declared without a name
UnnamedStructs == {Struct("Anon"), Struct("AnonDur")}

\* C23: an unnamed struct type has the empty type name.  Its schema is
\* returned inline, and building it adds no entry to the components
\* registry, whatever the types of its fields are.
C23_UnnamedInline ==
    (Built /\ last.type \in UnnamedStructs)
        => /\ status = "running"
           /\ typeName(last.type) = [ok |-> TRUE, name |-> ""]
           /\ last.result # Nil /\ last.result.k = "schema"
           /\ components = last.before.components

\* t is classified Unsupported
Unsupported(t) == DataTypeFromGo(t) = "TypeUnsupported"

\* t is a slice, an array or a map with string keys whose element is
\* classified Unsupported
HoldsUnsupported(t) ==
    /\ t.kind \in {"slice", "array", "map"}
    /\ "elem" \in DOMAIN t
    /\ t.kind = "map" => t.key = TString
    /\ Unsupported(t.elem)

\* the schema a slice, array or map schema has at the position of its elements
ElementSchema(sor) ==
    IF sor = Nil \/ sor.k # "schema" THEN Nil
    ELSE IF sor.schema.type = "array" THEN sor.schema.items
    ELSE sor.schema.additionalProperties

\* C24: a type classified Unsupported, at top level or as the element of a
\* slice, an array or a map, gets a generation error and no schema at its
\* position; no schema with an empty type is produced without an error.
C24_UnsupportedReported ==
    /\ (Built /\ status = "running" /\ Unsupported(last.type))
           => (Len(NewErrors) > 0 /\ last.result = Nil)
    /\ (Built /\ status = "running" /\ HoldsUnsupported(last.type))
           => (Len(NewErrors) > 0 /\ ElementSchema(last.result) = Nil)

\* the steps of the wrapping handler before the call of the tonic handler
AllSteps == <<"body">> \o BindOrder

\* the request of the last call was served by a wrapped handler, to its end
\* or not
Served == last.op = "Handle"

\* C25: the tonic handler is called only after the body, the query, the
\* path and the headers have been bound without an error, in that order.  At
\* the first step that fails no later step runs, the tonic handler is not
\* called, and the status and the payload of the error hook are rendered.
C25_BindThenCall ==
    Served
        => /\ last.invoked => (last.err = Nil /\ last.steps = AllSteps)
           /\ ~last.invoked
                  => /\ last.err # Nil
                     /\ Len(last.steps) \in 1..Len(AllSteps)
                     /\ last.steps = SubSeq(AllSteps, 1, Len(last.steps))
                     /\ last.code = StatusBadRequest
                     /\ last.payload = [error |-> last.err]

RECURSIVE RefsIn(_)
\* the references of a schema or reference, at any depth
RefsIn(sor) ==
    IF sor = Nil THEN {}
    ELSE IF sor.k = "ref" THEN {sor.ref}
    ELSE UNION ({ RefsIn(sor.schema.properties[p]) : p \in DOMAIN sor.schema.properties }
                    \cup {RefsIn(sor.schema.items),
                          RefsIn(sor.schema.additionalProperties)})

\* the references of an operation: its parameters, its request body, and
\* the contents and the headers of its responses
RefsOfOperation(op) ==
    IF op = Nil THEN {}
    ELSE UNION ({ RefsIn(op.parameters[i].schema) : i \in 1..Len(op.parameters) }
                    \cup {IF op.requestBody = Nil THEN {}
                          ELSE RefsIn(Inline(op.requestBody.schema))}
                    \cup { UNION { RefsIn(op.responses[c].content[mt]) :
                                       mt \in DOMAIN op.responses[c].content } :
                               c \in DOMAIN op.responses }
                    \cup { UNION { RefsIn(op.responses[c].headers[h]) :
                                       h \in DOMAIN op.responses[c].headers } :
                               c \in DOMAIN op.responses })

\* the references of the document: those of the operations of its paths and
\* those of the schemas of its components
RefsOfDocument ==
    UNION ({ RefsOfOperation(paths[p][m]) : p \in DOMAIN paths, m \in Methods }
               \cup { RefsIn(components[n]) : n \in DOMAIN components })

\* the reference is #/components/schemas/<name>, with a schema registered
\* under the name
Resolves(ref) ==
    /\ Len(ref) = 4
    /\ SubSeq(ref, 1, 3) = <<"#", "components", "schemas">>
    /\ Has(components, ref[4])
    /\ components[ref[4]] # Nil
    /\ components[ref[4]].k = "schema"

\* C26: no dangling reference.  After any sequence of completed calls, every
\* reference of the paths and of the components names a schema of the
\* components registry.
C26_NoDanglingReference ==
    status = "running" => \A ref \in RefsOfDocument : Resolves(ref)

\* an operation was added whose response refers to a registered schema that
\* itself holds a reference
C26_Witness ==
    /\ AddedOp
    /\ \E ref \in RefsOfOperation(StoredOp(Gen, last.path, last.method)) :
           /\ Resolves(ref)
           /\ RefsIn(components[ref[4]]) # {}

\* a generator as NewGenerator returns it
NewGen == [paths |-> EmptyMap, schemaTypes |-> {}, components |-> EmptyMap,
           errors |-> <<>>, status |-> "ok", why |-> ""]

\* the schema registered for the named struct t by a generator that is asked
\* for the schema of t and nothing else: no field of that type has been
\* enriched
Unenriched(t) == newSchemaFromType(NewGen, t).g.components[typeName(t).name]

\* the named structs of the model whose schema is built without a field of
\* their own type
PlainStructs == {Struct("Out"), Struct("In1")}

\* C27: enriching the schema of a field from its tags changes the schema of
\* that field only.  The schema registered for a named struct is the same
\* before and after a field of that type is enriched: it is the schema the
\* type gets when it is built for itself.
C27_EnrichmentLocal ==
    status = "running"
        => \A t \in PlainStructs \cap schemaTypes :
               Has(components, typeName(t).name)
                   => components[typeName(t).name] = Unenriched(t)

\* the last call of AddOperation returned an error
AddFailed == Added /\ status = "running" /\ last.err # ""

\* C28: a call of AddOperation that returns an error leaves the path map as
\* it was: no path key is added, and no operation is added or replaced.
C28_FailedAddKeepsPaths == AddFailed => paths = last.before.paths

\* the fields of struct t that are slice or array parameters of the query
CollectionFields(t) ==
    { i \in ParamFields(t, "query") :
          Kind(Deref(Field(t, i).type)) \in {"slice", "array"} }

\* the values of the query of the last request for field i of its input
ValuesOf(i) ==
    QueryValues(last.req, ParseTagKey(TagGet(Field(last.in, i), "query")))

\* the values of the last request for the collection field i can be bound:
\* one value that converts to the element type, for an array of length one
\* or for a slice; and no field before it is refused
Bindable(i) ==
    LET vt == Deref(Field(last.in, i).type)
    IN  /\ Len(ValuesOf(i)) = 1
        /\ Kind(vt) = "array" => vt.len = 1
        /\ ElemsConvert(ValuesOf(i), vt)
        /\ \A j \in ParamFields(last.in, "query") : j < i => ValuesOf(j) = <<>>

\* C29: the binding of a slice or array parameter does not end the binding
\* pass.  The converted elements are stored in the field of the input, and
\* every parameter field declared after it is bound too, or refused with a
\* binding error.
C29_PassContinues ==
    Served
        => \A i \in CollectionFields(last.in) :
               Bindable(i)
                   => /\ status = "running"
                      /\ Held(last.input.f[Field(last.in, i).name]).elems
                             = ConvertedElems(ValuesOf(i), Deref(Field(last.in, i).type))
                      /\ \A j \in ParamFields(last.in, "query") :
                             (j > i /\ Len(ValuesOf(j)) = 1)
                                 => \/ /\ last.err # Nil
                                       /\ last.err.field
                                              = ParseTagKey(TagGet(Field(last.in, j), "query"))
                                    \/ /\ Kind(Field(last.in, j).type) = "string"
                                       /\ last.input.f[Field(last.in, j).name]
                                              = [k |-> "string", s |-> ValuesOf(j)[1]]

\* t embeds a pointer to its own type
EmbedsItself(t) ==
    \E i \in 1..NumField(t) : Field(t, i).anon /\ Field(t, i).type = Ptr(t)

\* C30: request binding terminates for every input structure, one that
\* embeds a pointer to its own type included: the binder does not go on
\* making nested values of that type without end.
C30_BindingTerminates ==
    (Served /\ EmbedsItself(last.in)) => status = "running"
====
